---- MODULE Spec2Model ----
(***************************************************************************)
(* Offline-first synchronisation engine of the Offline-Location-PWA         *)
(* (src/src/hooks/useIndexedDB.ts, the hook defined at lines 197-554).      *)
(*                                                                         *)
(* The local store is the IndexedDB object store 'names' (autoIncrement    *)
(* key 'id'); the remote store is the Supabase table 'onboarding_records'. *)
(* Every await of the source is a point where other handlers may run, so   *)
(* each asynchronous operation is a task with a program counter.           *)
(* A supabaseId of 0 stands for an absent supabaseId.                      *)
(***************************************************************************)
EXTENDS Integers, Sequences, FiniteSets, TLC

\* Bounds of the model.
MaxId == 3          \* keys the autoIncrement generator of 'names' may hand out
MaxRemote == 2      \* ids the remote service may assign
MaxTasks == 2       \* asynchronous operations in flight at the same time
MaxClock == 1       \* distinct values of Date.now()
MaxEvents == 4      \* events from outside the engine in one run (user actions,
                    \* mount, online/offline, clock ticks, remote failures,
                    \* inserts of other clients)
MaxPulls == 2       \* SpecMerge: pulls run one after the other
MaxMergeKeys == 2   \* SpecMerge: keys of the local store before the first pull
MaxUnsynced == 3    \* SpecSupa: records passed to syncAllRecords
MaxLocalRecords == 101  \* SpecSupa: records passed to migrateLocalRecords
MaxPendingItems == 2    \* SpecRetry: items of 'pendingSync' at the sync event
MaxSyncEvents == 2      \* SpecRetry: sync events with the tag 'background-sync'
MaxSchemaKeys == 4      \* SpecSchema: keys the generator of 'names' may hand out
MaxCoordinate == 1      \* SpecTrip: latitude and longitude are in -1..1
MaxAccuracy == 1        \* SpecTrip: accuracy is in 0..1
MaxTripSeconds == 1     \* SpecTrip: whole seconds of a timestamp

VARIABLES
    db,           \* useState db: FALSE is null, TRUE is the opened database
    online,       \* navigator.onLine
    clock,        \* Date.now()
    store,        \* object store 'names': key -> NameEntry
    nextId,       \* key generator of the object store
    names,        \* useState names: the presentation view
    isSyncing,    \* useState isSyncing
    remote,       \* table onboarding_records
    nextRemote,   \* next id the remote service assigns
    tasks,        \* asynchronous operations in flight
    inserts,      \* history: successful remote inserts per local id
    userDeleted,  \* history: the records removed by deleteRecord
    offlineIds,   \* history: ids of the records addName created while offline
    lastCycle,    \* history: the last online-event cycle whose remote calls all
                  \* succeeded, and the clock when handleOnline last started a cycle
    events,       \* history: number of events from outside the engine so far
    pulls,        \* SpecMerge: pulls run to completion so far
    store0,       \* SpecMerge: the local store before the first pull
    pendingSync,  \* SpecAlt: object store 'pendingSync': key -> [id, data]
    nextPending,  \* SpecAlt: key generator of 'pendingSync'
    lastSyncTime, \* SpecAlt: useState lastSyncTime
    swStatic,     \* SpecSW: cache partition STATIC_CACHE: path -> response
    swDynamic,    \* SpecSW: cache partition DYNAMIC_CACHE: path -> response
    swNet,        \* SpecSW: the network is reachable from the service worker
    swVersion,    \* SpecSW: the version of the content the server serves
    swHandler,    \* SpecSW: the call of handleFetch in progress
    swBackground, \* SpecSW: fetches of staleWhileRevalidate nobody awaits
    swPut,        \* SpecSW: the cache.put a strategy has called and does not await
    input,        \* SpecLang: the name passed to addName
    entry,        \* SpecLang: the name and language of the nameEntry built from it
    supaOnline,   \* SpecSupa: useState isOnline of useSupabaseSync
    supaSyncing,  \* SpecSupa: useState isSyncing of useSupabaseSync
    syncError,    \* SpecSupa: useState syncError
    supaCall,     \* SpecSupa: the call of syncAllRecords or migrateLocalRecords in progress
    supaLog,      \* SpecSupa: history: the remote inserts of that call that have settled
    form,         \* SpecForm: the state of NameForm and of its call of addName
    lifeCaches,   \* SpecLife: CacheStorage: cache name -> the paths it holds
    lifeWorker,   \* SpecLife: the worker's install and activate handlers
    retry,        \* SpecRetry: the call of syncItemWithRetry
    idb,          \* SpecSchema: the database 'NameCollectorDB' of IndexedDB
    trip          \* SpecTrip: a record, its remote form and the local form of that

vars == <<db, online, clock, store, nextId, names, isSyncing, remote,
          nextRemote, tasks, inserts, userDeleted, offlineIds, lastCycle, events,
          pulls, store0, pendingSync, nextPending, lastSyncTime,
          swStatic, swDynamic, swNet, swVersion, swHandler, swBackground, swPut,
          input, entry,
          supaOnline, supaSyncing, syncError, supaCall, supaLog, form,
          lifeCaches, lifeWorker, retry, idb, trip>>

mergeVars == <<pulls, store0>>

altVars == <<pendingSync, nextPending, lastSyncTime>>

swVars == <<swStatic, swDynamic, swNet, swVersion, swHandler, swBackground, swPut>>

langVars == <<input, entry>>

supaVars == <<supaOnline, supaSyncing, syncError, supaCall, supaLog>>

formVars == <<form>>

\* the state outside the hook, the service worker's fetch handler and addName's
\* nameEntry

lifeVars == <<lifeCaches, lifeWorker>>

retryVars == <<retry>>

dataVars == <<idb, trip>>

extVars == <<supaVars, formVars, lifeVars, retryVars, dataVars>>

\* the state of the hook of useIndexedDB.ts
engineVars == <<db, online, clock, store, nextId, names, isSyncing, remote,
                nextRemote, tasks, inserts, userDeleted, offlineIds, lastCycle, events>>

Slots == 1..MaxTasks

Max(a, b) == IF a >= b THEN a ELSE b

----------------------------------------------------------------------------
\* Records

NameEntry(id, supabaseId, synced, timestamp) ==
    [id |-> id, supabaseId |-> supabaseId, synced |-> synced, timestamp |-> timestamp]

NoEntry == NameEntry(0, 0, FALSE, 0)

OnboardingRecord(id, timestamp) == [id |-> id, timestamp |-> timestamp]

Idle ==
    [kind |-> "idle", pc |-> "idle", rec |-> NoEntry, queue |-> <<>>,
     remoteRecords |-> <<>>, recordsToAdd |-> <<>>, data |-> 0,
     chain |-> FALSE, ok |-> TRUE, pre |-> {}, deletedBefore |-> {},
     selected |-> <<>>, tried |-> <<>>, skipped |-> <<>>]

----------------------------------------------------------------------------
\* The object store

RECURSIVE KeysAsc(_)
KeysAsc(S) ==
    IF S = {} THEN <<>>
    ELSE LET m == CHOOSE x \in S : \A y \in S : x <= y
         IN <<m>> \o KeysAsc(S \ {m})

\* store.getAll(): the records in key order
GetAll(s) ==
    LET ks == KeysAsc(DOMAIN s) IN [i \in 1..Len(ks) |-> s[ks[i]]]

\* store.put(record): upsert by key
Put(s, r) ==
    [k \in DOMAIN s \cup {r.id} |-> IF k = r.id THEN r ELSE s[k]]

\* a deleteRecord that purges only records already accepted by the remote service
DeleteSyncedOnly(s, id) ==
    IF id \in DOMAIN s /\ ~s[id].synced THEN s ELSE [k \in DOMAIN s \ {id} |-> s[k]]

\* store.delete(id)
Delete(s, id) == [k \in DOMAIN s \ {id} |-> s[k]]

\* store.clear() before the adds, as loadFromSupabaseOnly does
AddAllAfterClear(s, n, recs) ==
    [k \in n..(n + Len(recs) - 1) |-> [recs[k - n + 1] EXCEPT !.id = k]]

\* store.add(record) for each record of a list, keys from the generator
AddAll(s, n, recs) ==
    [k \in DOMAIN s \cup (n..(n + Len(recs) - 1)) |->
        IF k \in DOMAIN s THEN s[k] ELSE [recs[k - n + 1] EXCEPT !.id = k]]

\* Array.prototype.sort((a, b) => b.timestamp - a.timestamp): stable
RECURSIVE InsertDesc(_, _)
InsertDesc(sorted, r) ==
    IF sorted = <<>> THEN <<r>>
    ELSE IF Head(sorted).timestamp >= r.timestamp
         THEN <<Head(sorted)>> \o InsertDesc(Tail(sorted), r)
         ELSE <<r>> \o sorted

RECURSIVE SortByTimestampDesc(_)
SortByTimestampDesc(seq) ==
    IF seq = <<>> THEN <<>>
    ELSE InsertDesc(SortByTimestampDesc(SubSeq(seq, 1, Len(seq) - 1)), seq[Len(seq)])

\* loadLocalNames: the value given to setNames
LoadLocalNames(s) == SortByTimestampDesc(GetAll(s))

\* syncPendingData: request.result.filter(record => !record.synced)
Unsynced(recs) == SelectSeq(recs, LAMBDA r : ~r.synced)

\* setNames(prev => prev.filter(name => name.id !== id))
WithoutId(view, id) == SelectSeq(view, LAMBDA r : r.id # id)

\* setNames(prev => prev.map(item => item.id === record.id ? updatedRecord : item))
Replaced(view, updated) ==
    [i \in 1..Len(view) |-> IF view[i].id = updated.id THEN updated ELSE view[i]]

----------------------------------------------------------------------------
\* The remote service

\* select('*').order('timestamp', {ascending: false}): any order of the rows
\* that is descending in timestamp
SelectAll(rows) ==
    {s \in [1..Cardinality(rows) -> rows] :
        \A i, j \in DOMAIN s : i < j => (s[i] # s[j] /\ s[i].timestamp >= s[j].timestamp)}

----------------------------------------------------------------------------
\* fetchAndMergeRemoteRecords: the pure parts

\* localRecordMap: the supabaseIds of the local records that have one
LocalRecordMap(localRecords) ==
    {localRecords[i].supabaseId :
        i \in {j \in DOMAIN localRecords : localRecords[j].supabaseId # 0}}

\* a conversion that leaves the record to be pushed
ToLocalRecordUnsynced(remoteRecord) ==
    NameEntry(0, remoteRecord.id, FALSE, remoteRecord.timestamp)

\* the conversion of a remote record to the local format
ToLocalRecord(remoteRecord) ==
    NameEntry(0, remoteRecord.id, TRUE, remoteRecord.timestamp)

\* a merge without the localRecordMap.has(remoteRecord.id) test
SkipRemoteNever(localRecords, remoteRecord) == FALSE

\* the remote record is skipped when the local store already has it
SkipRemote(localRecords, remoteRecord) ==
    remoteRecord.id \in LocalRecordMap(localRecords)

RecordsToAdd(localRecords, remoteRecords) ==
    LET missing == SelectSeq(remoteRecords, LAMBDA r : ~SkipRemote(localRecords, r))
    IN [i \in 1..Len(missing) |-> ToLocalRecord(missing[i])]

----------------------------------------------------------------------------
\* addName: the entry that is stored

\* an entry stored with synced: isOnline, as the first version of the hook did
NewNameEntrySyncedWhenOnline(id, now) == NameEntry(id, 0, online, now)

NewNameEntry(id, now) == NameEntry(id, 0, FALSE, now)

\* a write-back that marks the record synced without storing data.id
UpdatedRecordWithoutId(record, dataId) == [record EXCEPT !.synced = TRUE]

\* syncSingleRecord: the record written back after a successful insert
UpdatedRecord(record, dataId) == [record EXCEPT !.synced = TRUE, !.supabaseId = dataId]

----------------------------------------------------------------------------
\* The service worker (src/dist/sw.js): responses and the call of handleFetch

\* the absence of a response: caches.match found nothing, or null
NoResponse == [kind |-> "none", body |-> 0, ok |-> FALSE]

\* a response of the server: the content served and response.ok
NetResponse(version, ok) == [kind |-> "net", body |-> version, ok |-> ok]

\* the offline page handleFetch synthesizes: new Response(html) has status 200
OfflinePage == [kind |-> "offline", body |-> 0, ok |-> TRUE]

NoRequest == [path |-> <<>>, mode |-> "none", method |-> "none"]

\* no cache.put is pending
NoPut == [partition |-> "none", path |-> <<>>, response |-> NoResponse]

\* no call of handleFetch is in progress and none has returned yet
IdleHandler ==
    [pc |-> "idle", req |-> NoRequest, strategy |-> "none", result |-> NoResponse,
     thrown |-> FALSE, fetches |-> 0, elapsed |-> 0]

\* useState<string | null>(null): the message is its kind and its two numbers
NoSyncError == [kind |-> "null", count |-> 0, of |-> 0]

SupaRest ==
    /\ supaOnline = TRUE
    /\ supaSyncing = FALSE
    /\ syncError = NoSyncError
    /\ supaCall = [op |-> "idle"]
    /\ supaLog = <<>>

\* NameForm: useState name, isSubmitting, showSuccess; pc is the position of
\* handleSubmit, newEntry and data those of addName and syncSingleRecord;
\* outcome is history: how the last handleSubmit ended
IdleForm ==
    [name |-> <<>>, isSubmitting |-> FALSE, showSuccess |-> FALSE, pc |-> "idle",
     newEntry |-> NoEntry, data |-> 0, outcome |-> "none"]

FormRest == form = IdleForm

\* the worker before its install event: state is the state of the worker,
\* critical that of cache.addAll, optional the resources whose cache.add is in
\* flight, keys that of caches.keys, deleting the names whose caches.delete is
\* in flight, claim that of clients.claim; optFailed is history
ParsedWorker ==
    [state |-> "parsed", skipWaiting |-> FALSE, critical |-> "none",
     optional |-> {}, optFailed |-> {}, keys |-> "none", deleting |-> {},
     claim |-> "none"]

LifeRest ==
    /\ lifeCaches = <<>>
    /\ lifeWorker = ParsedWorker

\* syncPendingData of the service worker before the sync event: pending is
\* the number of items of pendingData the loop has not finished, results how
\* the finished ones ended; of the call of syncItemWithRetry, attempt is the
\* loop variable, and fetches, the outcomes of the fetches and the delays of
\* the timers it has awaited, in milliseconds, are history
\* with the two object stores the background sync works on: pendingSync is
\* the set of the keys of its items (the item with key k holds the record
\* with id k of 'names'), names[k] is the field synced of record k; sent[k]
\* counts the fetches for item k that got an ok response
IdleRetry ==
    [pc |-> "idle", pending |-> 0, results |-> <<>>, maxRetries |-> 0,
     attempt |-> 0, fetches |-> 0, outcomes |-> <<>>, waits |-> <<>>,
     pendingSync |-> {}, names |-> <<>>, sent |-> <<>>,
     items |-> <<>>, namesBefore |-> <<>>, transaction |-> "none", syncs |-> 0]

RetryRest == retry = IdleRetry

\* no database yet: indexedDB.open has never been called; indexes are those
\* of the object store 'names', records its records by key
NoDatabase ==
    [version |-> 0, stores |-> {}, indexes |-> {}, records |-> <<>>, nextKey |-> 1]

\* no record is being converted
NoTrip == [pc |-> "idle", record |-> <<>>, remoteRecord |-> <<>>, localRecord |-> <<>>]

DataRest ==
    /\ idb = NoDatabase
    /\ trip = NoTrip

\* useSupabaseSync, the name form and the rest of the service worker while
\* another part is looked at
ExtRest == SupaRest /\ FormRest /\ LifeRest /\ RetryRest /\ DataRest

\* the service worker while another part is looked at
SwRest ==
    /\ swStatic = <<>>
    /\ swDynamic = <<>>
    /\ swNet = TRUE
    /\ swVersion = 1
    /\ swHandler = IdleHandler
    /\ swBackground = <<>>
    /\ swPut = NoPut

LangRest ==
    /\ input = <<>>
    /\ entry = [name |-> <<>>, language |-> "none"]

----------------------------------------------------------------------------
InitHook ==
    /\ db = FALSE
    /\ online \in BOOLEAN
    /\ clock = 0
    /\ store = <<>>
    /\ nextId = 1
    /\ names = <<>>
    /\ isSyncing = FALSE
    /\ remote = {}
    /\ nextRemote = 1
    /\ tasks = [t \in Slots |-> Idle]
    /\ inserts = [i \in 1..MaxId |-> 0]
    /\ userDeleted = {}
    /\ offlineIds = {}
    /\ lastCycle = [ok |-> FALSE, pre |-> {}, start |-> -1]
    /\ events = 0
    /\ pulls = 0
    /\ store0 = <<>>
    /\ pendingSync = <<>>
    /\ nextPending = 1
    /\ lastSyncTime = 0

Init == InitHook /\ SwRest /\ LangRest /\ ExtRest

\* the first free slot
Free(t) ==
    /\ tasks[t].kind = "idle"
    /\ \A u \in Slots : u < t => tasks[u].kind # "idle"

SetTask(t, T) == tasks' = [tasks EXCEPT ![t] = T]

ViewIds(view) == {view[i].id : i \in DOMAIN view}

\* history: the records deleteRecord removed when they already had a supabaseId
DeletedSynced == {d \in userDeleted : d.supabaseId # 0}

\* a call of fetchAndMergeRemoteRecords that has passed navigator.onLine and
\* issued the select; deletedBefore is history: the supabaseIds deleted so far
StartPull(chain, pre) ==
    [Idle EXCEPT !.kind = "pull", !.pc = "select", !.chain = chain, !.pre = pre,
                 !.deletedBefore = {d.supabaseId : d \in DeletedSynced}]

\* history flag of a cycle: every remote call so far succeeded
Ok(T, b) == IF T.chain \/ T.kind = "sync" THEN T.ok /\ b ELSE TRUE

----------------------------------------------------------------------------
\* fetchAndMergeRemoteRecords has returned (finally: setIsSyncing(false));
\* in handleOnline the awaited pull is followed by syncPendingData(), whose
\* closure holds the isSyncing = false that handleOnline itself tested, so
\* only db and navigator.onLine are looked at again.
AfterPull(t, T) ==
    IF T.chain /\ db /\ online
    THEN /\ isSyncing' = TRUE
         /\ SetTask(t, [Idle EXCEPT !.kind = "sync", !.pc = "getAll",
                                    !.chain = TRUE, !.ok = T.ok, !.pre = T.pre,
                                    !.deletedBefore = T.deletedBefore])
    ELSE /\ isSyncing' = FALSE
         /\ SetTask(t, Idle)

\* syncPendingData has returned (finally: setIsSyncing(false))
EndCycle(t, T) ==
    /\ isSyncing' = FALSE
    /\ SetTask(t, Idle)
    /\ lastCycle' = IF T.chain /\ T.ok
                    THEN [lastCycle EXCEPT !.ok = TRUE, !.pre = T.pre]
                    ELSE lastCycle

\* the loop of syncPendingData calls syncSingleRecord(Head(q)), which returns
\* at once when (!navigator.onLine || !db || record.synced) and otherwise
\* issues the remote insert; tried and skipped are history: the ids of the
\* records of this cycle with and without an insert attempt
LoopState(T, q) ==
    IF ~online \/ ~db \/ Head(q).synced
    THEN [T EXCEPT !.pc = "delay", !.queue = q, !.rec = Head(q), !.ok = Ok(T, online),
                   !.skipped = Append(@, Head(q).id)]
    ELSE [T EXCEPT !.pc = "insert", !.queue = q, !.rec = Head(q),
                   !.tried = Append(@, Head(q).id)]

EnterLoop(t, T, q) ==
    IF q = <<>>
    THEN EndCycle(t, T)
    ELSE /\ SetTask(t, LoopState(T, q))
         /\ UNCHANGED <<isSyncing, lastCycle>>

AfterPushEndsLoop(t, T) ==
    IF T.kind = "sync"
    THEN SetTask(t, [T EXCEPT !.pc = "delay", !.data = 0, !.queue = <<Head(@)>>])
    ELSE SetTask(t, Idle)

\* syncSingleRecord has returned to its caller
AfterPush(t, T) ==
    IF T.kind = "sync"
    THEN SetTask(t, [T EXCEPT !.pc = "delay", !.data = 0])
    ELSE SetTask(t, Idle)

----------------------------------------------------------------------------
\* initDB: openDB resolves and setDb(database); loadLocalNames is awaited
InitDB ==
    /\ events < MaxEvents /\ events' = events + 1
    /\ UNCHANGED <<mergeVars, altVars, swVars, langVars, extVars>>
    /\ ~db
    /\ db' = TRUE
    /\ \E t \in Slots :
          /\ Free(t)
          /\ SetTask(t, [Idle EXCEPT !.kind = "init", !.pc = "load"])
    /\ UNCHANGED <<online, clock, store, nextId, names, isSyncing, remote, nextRemote,
                   inserts, userDeleted, offlineIds, lastCycle>>

\* initDB: loadLocalNames returns; when navigator.onLine the pull is started,
\* whatever isSyncing is
InitLoad(t) ==
    /\ UNCHANGED events
    /\ UNCHANGED <<mergeVars, altVars, swVars, langVars, extVars>>
    /\ tasks[t].kind = "init" /\ tasks[t].pc = "load"
    /\ names' = LoadLocalNames(store)
    /\ IF online
       THEN /\ isSyncing' = TRUE
            /\ SetTask(t, StartPull(FALSE, {}))
       ELSE /\ SetTask(t, Idle)
            /\ UNCHANGED isSyncing
    /\ UNCHANGED <<db, online, clock, store, nextId, remote, nextRemote, inserts,
                   userDeleted, offlineIds, lastCycle>>

\* the 'online' event: handleOnline starts a pull followed by syncPendingData
GoOnline ==
    /\ events < MaxEvents /\ events' = events + 1
    /\ UNCHANGED <<mergeVars, altVars, swVars, langVars, extVars>>
    /\ ~online
    /\ online' = TRUE
    /\ IF db /\ ~isSyncing
       THEN \E t \in Slots :
               /\ Free(t)
               /\ isSyncing' = TRUE
               /\ lastCycle' = [lastCycle EXCEPT !.start = clock]
               /\ SetTask(t, StartPull(TRUE,
                                 {i \in DOMAIN store \cap offlineIds : ~store[i].synced}))
       ELSE UNCHANGED <<isSyncing, tasks, lastCycle>>
    /\ UNCHANGED <<db, clock, store, nextId, names, remote, nextRemote, inserts,
                   userDeleted, offlineIds>>

GoOffline ==
    /\ events < MaxEvents /\ events' = events + 1
    /\ UNCHANGED <<mergeVars, altVars, swVars, langVars, extVars>>
    /\ online
    /\ online' = FALSE
    /\ UNCHANGED <<db, clock, store, nextId, names, isSyncing, remote, nextRemote,
                   tasks, inserts, userDeleted, offlineIds, lastCycle>>

Tick ==
    /\ events < MaxEvents /\ events' = events + 1
    /\ UNCHANGED <<mergeVars, altVars, swVars, langVars, extVars>>
    /\ clock < MaxClock
    /\ clock' = clock + 1
    /\ UNCHANGED <<db, online, store, nextId, names, isSyncing, remote, nextRemote,
                   tasks, inserts, userDeleted, offlineIds, lastCycle>>

----------------------------------------------------------------------------
\* fetchAndMergeRemoteRecords

\* the select returns the rows
PullSelect(t) ==
    /\ UNCHANGED events
    /\ UNCHANGED <<mergeVars, altVars, swVars, langVars, extVars>>
    /\ online
    /\ tasks[t].kind = "pull" /\ tasks[t].pc = "select"
    /\ \E rows \in SelectAll(remote) :
          IF rows = <<>>
          THEN AfterPull(t, tasks[t])
          ELSE /\ SetTask(t, [tasks[t] EXCEPT !.pc = "getAll", !.remoteRecords = rows])
               /\ UNCHANGED isSyncing
    /\ UNCHANGED <<db, online, clock, store, nextId, names, remote, nextRemote,
                   inserts, userDeleted, offlineIds, lastCycle>>

\* the select returns an error
PullSelectError(t) ==
    /\ events < MaxEvents /\ events' = events + 1
    /\ UNCHANGED <<mergeVars, altVars, swVars, langVars, extVars>>
    /\ tasks[t].kind = "pull" /\ tasks[t].pc = "select"
    /\ AfterPull(t, [tasks[t] EXCEPT !.ok = Ok(tasks[t], FALSE)])
    /\ UNCHANGED <<db, online, clock, store, nextId, names, remote, nextRemote,
                   inserts, userDeleted, offlineIds, lastCycle>>

\* store.getAll() of the local records returns; recordsToAdd is computed
PullGetAll(t) ==
    /\ UNCHANGED events
    /\ UNCHANGED <<mergeVars, altVars, swVars, langVars, extVars>>
    /\ tasks[t].kind = "pull" /\ tasks[t].pc = "getAll"
    /\ LET toAdd == RecordsToAdd(GetAll(store), tasks[t].remoteRecords)
       IN SetTask(t, [tasks[t] EXCEPT !.pc = IF toAdd = <<>> THEN "load" ELSE "add",
                                      !.recordsToAdd = toAdd])
    /\ UNCHANGED <<db, online, clock, store, nextId, names, isSyncing, remote,
                   nextRemote, inserts, userDeleted, offlineIds, lastCycle>>

\* the add transaction: addStore.add(record) for every record of recordsToAdd
PullAdd(t) ==
    /\ UNCHANGED events
    /\ UNCHANGED <<mergeVars, altVars, swVars, langVars, extVars>>
    /\ tasks[t].kind = "pull" /\ tasks[t].pc = "add"
    /\ nextId + Len(tasks[t].recordsToAdd) - 1 <= MaxId
    /\ store' = AddAll(store, nextId, tasks[t].recordsToAdd)
    /\ nextId' = nextId + Len(tasks[t].recordsToAdd)
    /\ SetTask(t, [tasks[t] EXCEPT !.pc = "load", !.recordsToAdd = <<>>])
    /\ UNCHANGED <<db, online, clock, names, isSyncing, remote, nextRemote,
                   inserts, userDeleted, offlineIds, lastCycle>>

\* loadLocalNames(database), then the finally block
PullLoad(t) ==
    /\ UNCHANGED events
    /\ UNCHANGED <<mergeVars, altVars, swVars, langVars, extVars>>
    /\ tasks[t].kind = "pull" /\ tasks[t].pc = "load"
    /\ names' = LoadLocalNames(store)
    /\ AfterPull(t, tasks[t])
    /\ UNCHANGED <<db, online, clock, store, nextId, remote, nextRemote,
                   inserts, userDeleted, offlineIds, lastCycle>>

----------------------------------------------------------------------------
\* addName

AddNameOffline ==
    /\ events < MaxEvents /\ events' = events + 1
    /\ UNCHANGED <<mergeVars, altVars, swVars, langVars, extVars>>
    /\ db /\ ~online
    /\ nextId <= MaxId
    /\ LET newEntry == NewNameEntry(nextId, clock)
       IN /\ store' = AddAll(store, nextId, <<newEntry>>)
          /\ names' = <<newEntry>> \o names
    /\ nextId' = nextId + 1
    /\ offlineIds' = offlineIds \cup {nextId}
    /\ UNCHANGED <<db, online, clock, isSyncing, remote, nextRemote, tasks,
                   inserts, userDeleted, lastCycle>>

\* online: the entry is stored, shown, and syncSingleRecord(newEntry) is awaited
AddNameOnline(t) ==
    /\ events < MaxEvents /\ events' = events + 1
    /\ UNCHANGED <<mergeVars, altVars, swVars, langVars, extVars>>
    /\ db /\ online
    /\ Free(t)
    /\ nextId <= MaxId
    /\ LET newEntry == NewNameEntry(nextId, clock)
       IN /\ store' = AddAll(store, nextId, <<newEntry>>)
          /\ names' = <<newEntry>> \o names
          /\ IF newEntry.synced
             THEN UNCHANGED tasks
             ELSE SetTask(t, [Idle EXCEPT !.kind = "add", !.pc = "insert", !.rec = newEntry])
    /\ nextId' = nextId + 1
    /\ UNCHANGED <<db, online, clock, isSyncing, remote, nextRemote,
                   inserts, userDeleted, offlineIds, lastCycle>>

----------------------------------------------------------------------------
\* syncSingleRecord

\* the remote service accepts the insert and assigns an id
InsertOk(t) ==
    /\ UNCHANGED events
    /\ UNCHANGED <<mergeVars, altVars, swVars, langVars, extVars>>
    /\ online
    /\ tasks[t].pc = "insert"
    /\ nextRemote <= MaxRemote
    /\ remote' = remote \cup {OnboardingRecord(nextRemote, tasks[t].rec.timestamp)}
    /\ nextRemote' = nextRemote + 1
    /\ inserts' = [inserts EXCEPT ![tasks[t].rec.id] = @ + 1]
    /\ SetTask(t, [tasks[t] EXCEPT !.pc = "resp", !.data = nextRemote])
    /\ UNCHANGED <<db, online, clock, store, nextId, names, isSyncing,
                   userDeleted, offlineIds, lastCycle>>

\* the insert fails (error result or exception): nothing is written; a failure
\* while the device is online is an event of its own
InsertFail(t) ==
    /\ IF online THEN events < MaxEvents /\ events' = events + 1 ELSE UNCHANGED events
    /\ UNCHANGED <<mergeVars, altVars, swVars, langVars, extVars>>
    /\ tasks[t].pc = "insert"
    /\ AfterPush(t, [tasks[t] EXCEPT !.ok = Ok(tasks[t], FALSE)])
    /\ UNCHANGED <<db, online, clock, store, nextId, names, isSyncing, remote,
                   nextRemote, inserts, userDeleted, offlineIds, lastCycle>>

\* the connection is lost before the response arrives: the call fails on the
\* client although the remote service has stored the row
InsertRespLost(t) ==
    /\ UNCHANGED events
    /\ UNCHANGED <<mergeVars, altVars, swVars, langVars, extVars>>
    /\ ~online
    /\ tasks[t].pc = "resp"
    /\ AfterPush(t, [tasks[t] EXCEPT !.ok = Ok(tasks[t], FALSE)])
    /\ UNCHANGED <<db, online, clock, store, nextId, names, isSyncing, remote,
                   nextRemote, inserts, userDeleted, offlineIds, lastCycle>>

\* the response arrives: store.put(updatedRecord) and the view is updated
InsertResp(t) ==
    /\ UNCHANGED events
    /\ UNCHANGED <<mergeVars, altVars, swVars, langVars, extVars>>
    /\ online
    /\ tasks[t].pc = "resp"
    /\ IF tasks[t].data # 0 /\ tasks[t].rec.id # 0
       THEN LET updatedRecord == UpdatedRecord(tasks[t].rec, tasks[t].data)
            IN /\ store' = Put(store, updatedRecord)
               /\ names' = Replaced(names, updatedRecord)
       ELSE UNCHANGED <<store, names>>
    /\ AfterPush(t, tasks[t])
    /\ UNCHANGED <<db, online, clock, nextId, isSyncing, remote, nextRemote,
                   inserts, userDeleted, offlineIds, lastCycle>>

----------------------------------------------------------------------------
\* syncPendingData

\* a direct call that passes the guard (!db || isSyncing || !navigator.onLine);
\* deletedBefore is history: the supabaseIds deleted so far
SyncPendingData(t) ==
    /\ events < MaxEvents /\ events' = events + 1
    /\ UNCHANGED <<mergeVars, altVars, swVars, langVars, extVars>>
    /\ db /\ ~isSyncing /\ online
    /\ Free(t)
    /\ isSyncing' = TRUE
    /\ SetTask(t, [Idle EXCEPT !.kind = "sync", !.pc = "getAll",
                               !.deletedBefore = {d.supabaseId : d \in DeletedSynced}])
    /\ UNCHANGED <<db, online, clock, store, nextId, names, remote, nextRemote,
                   inserts, userDeleted, offlineIds, lastCycle>>

\* store.getAll() returns and the loop starts; selected is history: the ids of
\* unsyncedRecords
SyncGetAll(t) ==
    /\ UNCHANGED events
    /\ UNCHANGED <<mergeVars, altVars, swVars, langVars, extVars>>
    /\ tasks[t].kind = "sync" /\ tasks[t].pc = "getAll"
    /\ LET unsyncedRecords == Unsynced(GetAll(store))
       IN EnterLoop(t, [tasks[t] EXCEPT !.selected =
                           [i \in 1..Len(unsyncedRecords) |-> unsyncedRecords[i].id]],
                    unsyncedRecords)
    /\ UNCHANGED <<db, online, clock, store, nextId, names, remote, nextRemote,
                   inserts, userDeleted, offlineIds>>

\* the 100 ms delay ends and the loop goes to the next record
SyncDelay(t) ==
    /\ UNCHANGED events
    /\ UNCHANGED <<mergeVars, altVars, swVars, langVars, extVars>>
    /\ tasks[t].kind = "sync" /\ tasks[t].pc = "delay"
    /\ EnterLoop(t, tasks[t], Tail(tasks[t].queue))
    /\ UNCHANGED <<db, online, clock, store, nextId, names, remote, nextRemote,
                   inserts, userDeleted, offlineIds>>

----------------------------------------------------------------------------
\* deleteRecord(id), for an id of the presentation view
DeleteRecord(id) ==
    /\ events < MaxEvents /\ events' = events + 1
    /\ UNCHANGED <<mergeVars, altVars, swVars, langVars, extVars>>
    /\ db
    /\ id \in ViewIds(names)
    /\ store' = Delete(store, id)
    /\ names' = WithoutId(names, id)
    /\ userDeleted' = IF id \in DOMAIN store THEN userDeleted \cup {store[id]} ELSE userDeleted
    /\ UNCHANGED <<db, online, clock, nextId, isSyncing, remote, nextRemote,
                   tasks, inserts, offlineIds, lastCycle>>

\* another client inserts a record into the remote table
RemoteInsert ==
    /\ events < MaxEvents /\ events' = events + 1
    /\ UNCHANGED <<mergeVars, altVars, swVars, langVars, extVars>>
    /\ nextRemote <= MaxRemote
    /\ remote' = remote \cup {OnboardingRecord(nextRemote, clock)}
    /\ nextRemote' = nextRemote + 1
    /\ UNCHANGED <<db, online, clock, store, nextId, names, isSyncing, tasks,
                   inserts, userDeleted, offlineIds, lastCycle>>

----------------------------------------------------------------------------
Next ==
    \/ InitDB
    \/ \E t \in Slots : InitLoad(t)
    \/ GoOnline
    \/ GoOffline
    \/ Tick
    \/ AddNameOffline
    \/ \E t \in Slots : AddNameOnline(t)
    \/ \E t \in Slots : InsertOk(t)
    \/ \E t \in Slots : InsertFail(t)
    \/ \E t \in Slots : InsertResp(t)
    \/ \E t \in Slots : InsertRespLost(t)
    \/ \E t \in Slots : SyncPendingData(t)
    \/ \E t \in Slots : SyncGetAll(t)
    \/ \E t \in Slots : SyncDelay(t)
    \/ \E t \in Slots : PullSelect(t)
    \/ \E t \in Slots : PullSelectError(t)
    \/ \E t \in Slots : PullGetAll(t)
    \/ \E t \in Slots : PullAdd(t)
    \/ \E t \in Slots : PullLoad(t)
    \/ \E id \in 1..MaxId : DeleteRecord(id)
    \/ RemoteInsert

Spec == Init /\ [][Next]_vars

----------------------------------------------------------------------------
\* SpecMerge: fetchAndMergeRemoteRecords run to completion, one call after the
\* other, against a remote table that does not change, from any local store.

\* the store after one complete call that fetched rows
FetchAndMerge(s, n, rows) ==
    IF rows = <<>> THEN s ELSE AddAll(s, n, RecordsToAdd(GetAll(s), rows))

\* the local stores of the initial states: a record is synced exactly when it
\* has a supabaseId
MergeStores ==
    UNION {[K -> {NameEntry(0, sid, sid # 0, ts) : sid \in 0..MaxRemote, ts \in 0..MaxClock}] :
              K \in SUBSET (1..MaxMergeKeys)}

\* the remote tables of the initial states: the ids of the rows are distinct
MergeRemotes ==
    UNION {{{OnboardingRecord(i, f[i]) : i \in I} : f \in [I -> 0..MaxClock]} :
              I \in SUBSET (1..MaxRemote)}

InitMerge ==
    /\ db = TRUE
    /\ online = TRUE
    /\ clock = MaxClock
    /\ \E s \in MergeStores : store = [k \in DOMAIN s |-> [s[k] EXCEPT !.id = k]]
    /\ nextId = MaxMergeKeys + 1
    /\ names = LoadLocalNames(store)
    /\ isSyncing = FALSE
    /\ remote \in MergeRemotes
    /\ nextRemote = MaxRemote + 1
    /\ tasks = [t \in Slots |-> Idle]
    /\ inserts = [i \in 1..MaxId |-> 0]
    /\ userDeleted = {}
    /\ offlineIds = {}
    /\ lastCycle = [ok |-> FALSE, pre |-> {}, start |-> -1]
    /\ events = 0
    /\ pulls = 0
    /\ store0 = store
    /\ pendingSync = <<>>
    /\ nextPending = 1
    /\ lastSyncTime = 0
    /\ SwRest
    /\ LangRest
    /\ ExtRest

\* one call of fetchAndMergeRemoteRecords from its select to its finally block
MergePull ==
    /\ pulls < MaxPulls
    /\ \E rows \in SelectAll(remote) :
          LET merged == FetchAndMerge(store, nextId, rows)
          IN /\ store' = merged
             /\ nextId' = nextId + Cardinality(DOMAIN merged) - Cardinality(DOMAIN store)
             /\ names' = IF rows = <<>> THEN names ELSE LoadLocalNames(merged)
    /\ pulls' = pulls + 1
    /\ UNCHANGED <<db, online, clock, isSyncing, remote, nextRemote, tasks, inserts,
                   userDeleted, offlineIds, lastCycle, events, store0, altVars,
                   swVars, langVars, extVars>>

NextMerge == MergePull

SpecMerge == InitMerge /\ [][NextMerge]_vars

----------------------------------------------------------------------------
\* SpecAlt: the hook of src/unnamed/part_002. It keeps a second object store
\* 'pendingSync' of entries still to push, has no supabaseId, throttles
\* syncPendingData, and reloads the local store from the remote table
\* (loadFromSupabaseOnly) on mount, after an online addName and after a cycle.

ThrottleMs == 5000

\* Date.now() in milliseconds; one tick of the clock is one throttle window
Now == ThrottleMs * (clock + 1)

\* fetchAllRecords: order('created_at', {ascending: false}), the rows by
\* insertion, the latest first
RECURSIVE RowsByCreatedDesc(_)
RowsByCreatedDesc(rows) ==
    IF rows = {} THEN <<>>
    ELSE LET m == CHOOSE r \in rows : \A q \in rows : q.id <= r.id
         IN <<m>> \o RowsByCreatedDesc(rows \ {m})

\* loadFromSupabaseOnly: convertedRecords, with id: index + 1, sorted
ConvertedRecords(rows) ==
    SortByTimestampDesc([i \in 1..Len(rows) |-> NameEntry(i, 0, TRUE, rows[i].timestamp)])

\* loadFromSupabaseOnly: store.clear(), then store.add(record) for each record
ClearAndAdd(converted) ==
    [k \in {converted[i].id : i \in DOMAIN converted} |->
        CHOOSE r \in {converted[i] : i \in DOMAIN converted} : r.id = k]

\* pendingSync.getAll()
PendingItems(p) ==
    LET ks == KeysAsc(DOMAIN p) IN [i \in 1..Len(ks) |-> p[ks[i]]]

\* storeLocally: setNames(prev => [newEntry, ...prev.filter(...)].sort(...))
WithNewEntry(view, newEntry) ==
    SortByTimestampDesc(<<newEntry>> \o WithoutId(view, newEntry.id))

\* storeLocally(nameEntry): the entry goes to 'names', the view and 'pendingSync'
StoreLocally(nameEntry) ==
    LET newEntry == [nameEntry EXCEPT !.id = nextId]
    IN /\ nextId <= MaxId
       /\ store' = AddAll(store, nextId, <<nameEntry>>)
       /\ nextId' = nextId + 1
       /\ names' = WithNewEntry(names, newEntry)
       /\ pendingSync' = [k \in DOMAIN pendingSync \cup {nextPending} |->
                             IF k = nextPending
                             THEN [id |-> nextPending, data |-> newEntry]
                             ELSE pendingSync[k]]
       /\ nextPending' = nextPending + 1

AltInit == Init

\* initDB: openDB, then loadFromSupabaseOnly when online, else loadNames
AltInitDB ==
    /\ events < MaxEvents /\ events' = events + 1
    /\ ~db
    /\ db' = TRUE
    /\ IF online
       THEN /\ \E t \in Slots :
                  /\ Free(t)
                  /\ SetTask(t, [Idle EXCEPT !.kind = "altInit", !.pc = "fetch"])
            /\ UNCHANGED names
       ELSE /\ names' = LoadLocalNames(store)
            /\ UNCHANGED tasks
    /\ UNCHANGED <<online, clock, store, nextId, isSyncing, remote, nextRemote, inserts,
                   userDeleted, offlineIds, lastCycle, mergeVars, swVars, langVars, extVars,
                   altVars>>

\* the device comes online; this hook has no 'online' listener
AltGoOnline ==
    /\ events < MaxEvents /\ events' = events + 1
    /\ ~online
    /\ online' = TRUE
    /\ UNCHANGED <<db, clock, store, nextId, names, isSyncing, remote, nextRemote, tasks,
                   inserts, userDeleted, offlineIds, lastCycle, mergeVars, swVars, langVars, extVars,
                   altVars>>

\* addName(name, location, false): storeLocally
AltAddNameOffline ==
    /\ events < MaxEvents /\ events' = events + 1
    /\ db /\ ~online
    /\ StoreLocally(NewNameEntry(0, clock))
    /\ UNCHANGED <<db, online, clock, isSyncing, remote, nextRemote, tasks, inserts,
                   userDeleted, offlineIds, lastCycle, mergeVars, swVars, langVars, extVars,
                   lastSyncTime>>

\* addName(name, location, true): syncRecordToSupabase(nameEntry) is awaited first
AltAddNameOnline(t) ==
    /\ events < MaxEvents /\ events' = events + 1
    /\ db /\ online
    /\ Free(t)
    /\ SetTask(t, [Idle EXCEPT !.kind = "altAdd", !.pc = "insert",
                               !.rec = NewNameEntry(0, clock)])
    /\ UNCHANGED <<db, online, clock, store, nextId, names, isSyncing, remote, nextRemote,
                   inserts, userDeleted, offlineIds, lastCycle, mergeVars, swVars, langVars, extVars,
                   altVars>>

\* the loop of syncPendingData after the item at the head of the queue
AltNextItem(T) ==
    IF Tail(T.queue) = <<>>
    THEN [T EXCEPT !.pc = "fetch", !.queue = <<>>, !.rec = NoEntry]
    ELSE [T EXCEPT !.queue = Tail(T.queue), !.rec = Tail(T.queue)[1].data]

\* syncRecordToSupabase returns true: addName reloads from the remote table,
\* syncPendingData deletes the item from 'pendingSync'
AltInsertOk(t) ==
    /\ tasks[t].kind \in {"altAdd", "altSync"} /\ tasks[t].pc = "insert"
    /\ online
    /\ nextRemote <= MaxRemote
    /\ remote' = remote \cup {OnboardingRecord(nextRemote, tasks[t].rec.timestamp)}
    /\ nextRemote' = nextRemote + 1
    /\ IF tasks[t].kind = "altAdd"
       THEN /\ SetTask(t, [tasks[t] EXCEPT !.pc = "fetch"])
            /\ UNCHANGED pendingSync
       ELSE /\ SetTask(t, AltNextItem(tasks[t]))
            /\ pendingSync' = [k \in DOMAIN pendingSync \ {Head(tasks[t].queue).id} |->
                                  pendingSync[k]]
    /\ UNCHANGED <<db, online, clock, store, nextId, names, isSyncing, inserts,
                   userDeleted, offlineIds, lastCycle, events, mergeVars,
                   swVars, langVars, extVars, nextPending, lastSyncTime>>

\* syncRecordToSupabase returns false: addName stores the entry locally,
\* syncPendingData leaves the item in 'pendingSync'
AltInsertFail(t) ==
    /\ IF online THEN events < MaxEvents /\ events' = events + 1 ELSE UNCHANGED events
    /\ tasks[t].kind \in {"altAdd", "altSync"} /\ tasks[t].pc = "insert"
    /\ IF tasks[t].kind = "altAdd"
       THEN /\ StoreLocally(tasks[t].rec)
            /\ SetTask(t, Idle)
       ELSE /\ SetTask(t, AltNextItem(tasks[t]))
            /\ UNCHANGED <<store, nextId, names, pendingSync, nextPending>>
    /\ UNCHANGED <<db, online, clock, isSyncing, remote, nextRemote, inserts,
                   userDeleted, offlineIds, lastCycle, mergeVars, swVars, langVars, extVars,
                   lastSyncTime>>

\* a call of syncPendingData that passes the guard and the 5 second throttle
AltSyncPendingData(t) ==
    /\ events < MaxEvents /\ events' = events + 1
    /\ db /\ ~isSyncing /\ online
    /\ ~(Now - lastSyncTime < ThrottleMs)
    /\ Free(t)
    /\ isSyncing' = TRUE
    /\ lastSyncTime' = Now
    /\ SetTask(t, [Idle EXCEPT !.kind = "altSync", !.pc = "getPending"])
    /\ UNCHANGED <<db, online, clock, store, nextId, names, remote, nextRemote, inserts,
                   userDeleted, offlineIds, lastCycle, mergeVars, swVars, langVars, extVars,
                   pendingSync, nextPending>>

\* pendingSync.getAll() returns: no item ends the call, else the loop starts
AltSyncGetPending(t) ==
    /\ tasks[t].kind = "altSync" /\ tasks[t].pc = "getPending"
    /\ LET pendingItems == PendingItems(pendingSync)
       IN IF pendingItems = <<>>
          THEN /\ isSyncing' = FALSE
               /\ SetTask(t, Idle)
          ELSE /\ SetTask(t, [tasks[t] EXCEPT !.pc = "insert", !.queue = pendingItems,
                                              !.rec = pendingItems[1].data])
               /\ UNCHANGED isSyncing
    /\ UNCHANGED <<db, online, clock, store, nextId, names, remote, nextRemote, inserts,
                   userDeleted, offlineIds, lastCycle, events, mergeVars, swVars, langVars, extVars,
                   altVars>>

\* loadFromSupabaseOnly: fetchAllRecords returns the rows
LoadFetch(t) ==
    /\ tasks[t].pc = "fetch"
    /\ online
    /\ SetTask(t, [tasks[t] EXCEPT !.pc = "replace",
                                   !.remoteRecords = RowsByCreatedDesc(remote)])
    /\ UNCHANGED <<db, online, clock, store, nextId, names, isSyncing, remote, nextRemote,
                   inserts, userDeleted, offlineIds, lastCycle, events, mergeVars, swVars, langVars, extVars,
                   altVars>>

\* loadFromSupabaseOnly: fetchAllRecords fails and returns []
LoadFetchError(t) ==
    /\ events < MaxEvents /\ events' = events + 1
    /\ tasks[t].pc = "fetch"
    /\ SetTask(t, [tasks[t] EXCEPT !.pc = "replace", !.remoteRecords = <<>>])
    /\ UNCHANGED <<db, online, clock, store, nextId, names, isSyncing, remote, nextRemote,
                   inserts, userDeleted, offlineIds, lastCycle, mergeVars, swVars, langVars, extVars,
                   altVars>>

\* loadFromSupabaseOnly: the store is cleared and refilled with the converted
\* rows, which also become the view; a cycle then ends (finally)
LoadReplace(t) ==
    /\ tasks[t].pc = "replace"
    /\ LET convertedRecords == ConvertedRecords(tasks[t].remoteRecords)
       IN /\ store' = ClearAndAdd(convertedRecords)
          /\ nextId' = IF Len(convertedRecords) + 1 > nextId
                        THEN Len(convertedRecords) + 1 ELSE nextId
          /\ names' = convertedRecords
    /\ isSyncing' = IF tasks[t].kind = "altSync" THEN FALSE ELSE isSyncing
    /\ SetTask(t, Idle)
    /\ UNCHANGED <<db, online, clock, remote, nextRemote, inserts, userDeleted,
                   offlineIds, lastCycle, events, mergeVars, swVars, langVars, extVars,
                   altVars>>

NextAlt ==
    \/ AltInitDB
    \/ AltGoOnline
    \/ GoOffline
    \/ Tick
    \/ AltAddNameOffline
    \/ \E t \in Slots : AltAddNameOnline(t)
    \/ \E t \in Slots : AltInsertOk(t)
    \/ \E t \in Slots : AltInsertFail(t)
    \/ \E t \in Slots : AltSyncPendingData(t)
    \/ \E t \in Slots : AltSyncGetPending(t)
    \/ \E t \in Slots : LoadFetch(t)
    \/ \E t \in Slots : LoadFetchError(t)
    \/ \E t \in Slots : LoadReplace(t)
    \/ \E id \in 1..MaxId : DeleteRecord(id)
    \/ RemoteInsert

SpecAlt == AltInit /\ [][NextAlt]_vars

----------------------------------------------------------------------------
\* SpecSW: the fetch handler of the service worker (src/dist/sw.js). A path is
\* the sequence of its parts, "/" included; a cache partition maps the paths it
\* holds to responses. Every await of handleFetch and of the three strategies
\* is a step; the fetch staleWhileRevalidate starts and does not await goes on
\* in swBackground after handleFetch has returned, and the cache.put a strategy
\* calls without await is pending in swPut until it settles; a strategy gets
\* its next ok response once the earlier put has settled. The install handler
\* is looked at step by step in SpecLife; here it is one step of an install
\* whose critical resources could all be fetched.

MaxVersion == 2       \* versions of the content the server serves
MaxBackground == 1    \* fetches of staleWhileRevalidate in flight that nobody awaits

NetworkTimeoutMs == 3000

\* the time a network fetch takes to resolve or reject, in milliseconds
Latencies == {1000, 3000, 5000}

CRITICAL_RESOURCES ==
    { <<"/">>,
      <<"/", "index.html">>,
      <<"/", "src", "/", "main.tsx">>,
      <<"/", "src", "/", "App.tsx">>,
      <<"/", "src", "/", "index.css">>,
      <<"/", "manifest.json">> }

OPTIONAL_RESOURCES ==
    { <<"/", "src", "/", "components", "/", "NameForm.tsx">>,
      <<"/", "src", "/", "components", "/", "NamesList.tsx">>,
      <<"/", "src", "/", "components", "/", "NetworkStatus.tsx">>,
      <<"/", "src", "/", "hooks", "/", "useIndexedDB.ts">>,
      <<"/", "src", "/", "hooks", "/", "useNetworkStatus.ts">>,
      <<"/", "src", "/", "hooks", "/", "useGeolocation.ts">>,
      <<"/", "src", "/", "utils", "/", "pwaUtils.ts">> }

\* the paths the pages request: an API path, a path with 'sync' in it that
\* ends with the critical resource '/index.html', and an optional resource
Paths ==
    { <<"/", "api", "/", "records">>,
      <<"/", "sync", "/", "index.html">>,
      <<"/", "src", "/", "utils", "/", "pwaUtils.ts">> }

\* the requests of the fetch events
Requests == [path : Paths, mode : {"navigate", "no-cors"}, method : {"GET", "POST"}]

\* String.prototype.endsWith and startsWith, on the parts of a path
EndsWith(path, suffix) ==
    /\ Len(suffix) <= Len(path)
    /\ SubSeq(path, Len(path) - Len(suffix) + 1, Len(path)) = suffix

StartsWith(path, prefix) ==
    /\ Len(prefix) <= Len(path)
    /\ SubSeq(path, 1, Len(prefix)) = prefix

\* url.pathname.includes('sync'): a part of the path contains 'sync'
IncludesSync(path) == \E i \in DOMAIN path : path[i] \in {"sync", "sync-status"}

\* a routing that looks at the endpoint test first
RouteEndpointFirst(path) ==
    IF StartsWith(path, <<"/", "api", "/">>) \/ IncludesSync(path)
    THEN "networkFirstWithTimeout"
    ELSE IF \E resource \in CRITICAL_RESOURCES : path = resource \/ EndsWith(path, resource)
         THEN "cacheFirst"
         ELSE "staleWhileRevalidate"

\* handleFetch: the strategy chosen for a pathname
Route(path) ==
    IF \E resource \in CRITICAL_RESOURCES : path = resource \/ EndsWith(path, resource)
    THEN "cacheFirst"
    ELSE IF StartsWith(path, <<"/", "api", "/">>) \/ IncludesSync(path)
         THEN "networkFirstWithTimeout"
         ELSE "staleWhileRevalidate"

\* a caches.match that looks into the dynamic partition only
MatchDynamicOnly(static, dynamic, path) ==
    IF path \in DOMAIN dynamic THEN dynamic[path] ELSE NoResponse

\* caches.match(request): the partitions in the order of their creation
Match(static, dynamic, path) ==
    IF path \in DOMAIN static THEN static[path]
    ELSE IF path \in DOMAIN dynamic THEN dynamic[path]
    ELSE NoResponse

\* cache.put(request, response.clone())
CachePut(cache, path, response) ==
    [q \in DOMAIN cache \cup {path} |-> IF q = path THEN response ELSE cache[q]]

\* a strategy that stores nothing
StoreNever(partition, path, response) == swPut

\* a strategy that stores the responses that are not ok
StoreNotOk(partition, path, response) ==
    IF response.ok
    THEN swPut
    ELSE [partition |-> partition, path |-> path, response |-> response]

\* a strategy that stores every response of the network
StoreAlways(partition, path, response) ==
    [partition |-> partition, path |-> path, response |-> response]

\* if (response.ok) cache.put(request, response.clone()): the strategies call
\* cache.put without await, so the put is pending when they return
StoreIfOk(partition, path, response) ==
    IF response.ok
    THEN [partition |-> partition, path |-> path, response |-> response]
    ELSE swPut

\* a fallback that ends without the synthesized page
ShellOrNothing(appShell) == appShell

\* handleFetch: the app shell if it is cached, else the offline page
ShellOrOffline(appShell) ==
    IF appShell # NoResponse THEN appShell ELSE OfflinePage

\* a timer that never aborts the fetch
TimedOutNever(latency) == FALSE

\* networkFirstWithTimeout: the timer fires before the fetch settles, or at the
\* same time
TimedOut(latency) == latency >= NetworkTimeoutMs

\* handleFetch returns a response
Return(response) ==
    swHandler' = [swHandler EXCEPT !.pc = "done", !.result = response]

\* the strategy throws: the catch block of handleFetch runs
Throw ==
    swHandler' = [swHandler EXCEPT !.pc = "fallbackMatch", !.thrown = TRUE]

InitSW ==
    /\ InitHook /\ online
    /\ LangRest
    /\ ExtRest
    /\ swStatic = <<>>
    /\ swDynamic = <<>>
    /\ swNet \in BOOLEAN
    /\ swVersion = 1
    /\ swHandler = IdleHandler
    /\ swBackground = <<>>
    /\ swPut = NoPut

\* install, of this worker or of an update that keeps the cache names:
\* cache.addAll(CRITICAL_RESOURCES) into the static partition, all or nothing,
\* and the optional resources one by one, failures tolerated
Install ==
    /\ swNet
    /\ swStatic' = [q \in DOMAIN swStatic \cup CRITICAL_RESOURCES |->
                       IF q \in CRITICAL_RESOURCES THEN NetResponse(swVersion, TRUE)
                       ELSE swStatic[q]]
    /\ \E fetched \in SUBSET (OPTIONAL_RESOURCES \cap Paths) :
          swDynamic' = [q \in DOMAIN swDynamic \cup fetched |->
                           IF q \in fetched THEN NetResponse(swVersion, TRUE)
                           ELSE swDynamic[q]]
    /\ UNCHANGED <<swNet, swVersion, swHandler, swBackground, swPut>>
    /\ UNCHANGED <<engineVars, mergeVars, altVars, langVars, extVars>>

\* the network becomes reachable or unreachable
NetChange ==
    /\ swNet' = ~swNet
    /\ UNCHANGED <<swStatic, swDynamic, swVersion, swHandler, swBackground, swPut>>
    /\ UNCHANGED <<engineVars, mergeVars, altVars, langVars, extVars>>

\* the server gets new content
ServerUpdate ==
    /\ swVersion < MaxVersion
    /\ swVersion' = swVersion + 1
    /\ UNCHANGED <<swStatic, swDynamic, swNet, swHandler, swBackground, swPut>>
    /\ UNCHANGED <<engineVars, mergeVars, altVars, langVars, extVars>>

\* the fetch event of a request that is not a GET request: the listener
\* returns without event.respondWith and the browser handles the request
PassThrough(request) ==
    /\ swHandler.pc \in {"idle", "done"}
    /\ request.method # "GET"
    /\ swHandler' = [IdleHandler EXCEPT !.req = request]
    /\ UNCHANGED <<swStatic, swDynamic, swNet, swVersion, swBackground, swPut>>
    /\ UNCHANGED <<engineVars, mergeVars, altVars, langVars, extVars>>

\* the fetch event of a GET request: handleFetch chooses the strategy and
\* runs it to its first await; networkFirstWithTimeout issues its fetch at once
HandleFetch(request) ==
    /\ swHandler.pc \in {"idle", "done"}
    /\ request.method = "GET"
    /\ LET strategy == Route(request.path)
       IN swHandler' =
             [IdleHandler EXCEPT
                 !.req = request,
                 !.strategy = strategy,
                 !.pc = IF strategy = "networkFirstWithTimeout" THEN "fetch" ELSE "match",
                 !.fetches = IF strategy = "networkFirstWithTimeout" THEN 1 ELSE 0]
    /\ UNCHANGED <<swStatic, swDynamic, swNet, swVersion, swBackground, swPut>>
    /\ UNCHANGED <<engineVars, mergeVars, altVars, langVars, extVars>>

\* cacheFirst: caches.match returns; a miss issues the fetch
CacheFirstMatch ==
    /\ swHandler.strategy = "cacheFirst" /\ swHandler.pc = "match"
    /\ LET cachedResponse == Match(swStatic, swDynamic, swHandler.req.path)
       IN IF cachedResponse # NoResponse
          THEN Return(cachedResponse)
          ELSE swHandler' = [swHandler EXCEPT !.pc = "fetch", !.fetches = @ + 1]
    /\ UNCHANGED <<swStatic, swDynamic, swNet, swVersion, swBackground, swPut>>
    /\ UNCHANGED <<engineVars, mergeVars, altVars, langVars, extVars>>

\* cacheFirst: the fetch resolves; an ok response goes to the static partition
CacheFirstFetchOk ==
    /\ swHandler.strategy = "cacheFirst" /\ swHandler.pc = "fetch"
    /\ swNet
    /\ \E ok \in BOOLEAN :
          LET networkResponse == NetResponse(swVersion, ok)
          IN /\ ok => swPut = NoPut
             /\ swPut' = StoreIfOk("static", swHandler.req.path, networkResponse)
             /\ Return(networkResponse)
    /\ UNCHANGED <<swStatic, swDynamic, swNet, swVersion, swBackground>>
    /\ UNCHANGED <<engineVars, mergeVars, altVars, langVars, extVars>>

\* cacheFirst: the fetch rejects and the error is thrown again
CacheFirstFetchFail ==
    /\ swHandler.strategy = "cacheFirst" /\ swHandler.pc = "fetch"
    /\ ~swNet
    /\ Throw
    /\ UNCHANGED <<swStatic, swDynamic, swNet, swVersion, swBackground, swPut>>
    /\ UNCHANGED <<engineVars, mergeVars, altVars, langVars, extVars>>

\* networkFirstWithTimeout: the fetch resolves before the timer fires; an ok
\* response goes to the dynamic partition
NetworkFirstFetchOk ==
    /\ swHandler.strategy = "networkFirstWithTimeout" /\ swHandler.pc = "fetch"
    /\ swNet
    /\ \E latency \in Latencies, ok \in BOOLEAN :
          LET networkResponse == NetResponse(swVersion, ok)
          IN /\ ~TimedOut(latency) \/ latency = NetworkTimeoutMs
             /\ ok => swPut = NoPut
             /\ swPut' = StoreIfOk("dynamic", swHandler.req.path, networkResponse)
             /\ swHandler' = [swHandler EXCEPT !.pc = "done", !.result = networkResponse,
                                               !.elapsed = latency]
    /\ UNCHANGED <<swStatic, swDynamic, swNet, swVersion, swBackground>>
    /\ UNCHANGED <<engineVars, mergeVars, altVars, langVars, extVars>>

\* networkFirstWithTimeout: the fetch rejects, or controller.abort() of the
\* timer rejects it; the catch block awaits caches.match
NetworkFirstFetchFail ==
    /\ swHandler.strategy = "networkFirstWithTimeout" /\ swHandler.pc = "fetch"
    /\ \E latency \in Latencies :
          /\ ~swNet \/ TimedOut(latency)
          /\ swHandler' = [swHandler EXCEPT
                              !.pc = "catch",
                              !.elapsed = IF TimedOut(latency) THEN NetworkTimeoutMs
                                          ELSE latency]
    /\ UNCHANGED <<swStatic, swDynamic, swNet, swVersion, swBackground, swPut>>
    /\ UNCHANGED <<engineVars, mergeVars, altVars, langVars, extVars>>

\* networkFirstWithTimeout: caches.match of the catch block returns
NetworkFirstCatch ==
    /\ swHandler.strategy = "networkFirstWithTimeout" /\ swHandler.pc = "catch"
    /\ LET cachedResponse == Match(swStatic, swDynamic, swHandler.req.path)
       IN IF cachedResponse # NoResponse THEN Return(cachedResponse) ELSE Throw
    /\ UNCHANGED <<swStatic, swDynamic, swNet, swVersion, swBackground, swPut>>
    /\ UNCHANGED <<engineVars, mergeVars, altVars, langVars, extVars>>

\* staleWhileRevalidate: caches.match returns and the fetch is started; a hit
\* is returned at once and the fetch goes on unawaited
StaleWhileRevalidateMatch ==
    /\ swHandler.strategy = "staleWhileRevalidate" /\ swHandler.pc = "match"
    /\ LET cachedResponse == Match(swStatic, swDynamic, swHandler.req.path)
       IN IF cachedResponse # NoResponse
          THEN /\ Len(swBackground) < MaxBackground
               /\ swBackground' = Append(swBackground, swHandler.req.path)
               /\ swHandler' = [swHandler EXCEPT !.pc = "done", !.result = cachedResponse,
                                                 !.fetches = @ + 1]
          ELSE /\ swHandler' = [swHandler EXCEPT !.pc = "wait", !.fetches = @ + 1]
               /\ UNCHANGED swBackground
    /\ UNCHANGED <<swStatic, swDynamic, swNet, swVersion, swPut>>
    /\ UNCHANGED <<engineVars, mergeVars, altVars, langVars, extVars>>

\* staleWhileRevalidate without a cached copy: the awaited fetch resolves
StaleWhileRevalidateFetchOk ==
    /\ swHandler.strategy = "staleWhileRevalidate" /\ swHandler.pc = "wait"
    /\ swNet
    /\ \E ok \in BOOLEAN :
          LET response == NetResponse(swVersion, ok)
          IN /\ ok => swPut = NoPut
             /\ swPut' = StoreIfOk("dynamic", swHandler.req.path, response)
             /\ Return(response)
    /\ UNCHANGED <<swStatic, swDynamic, swNet, swVersion, swBackground>>
    /\ UNCHANGED <<engineVars, mergeVars, altVars, langVars, extVars>>

\* staleWhileRevalidate without a cached copy: the fetch rejects, the promise
\* resolves with null and the strategy throws
StaleWhileRevalidateFetchFail ==
    /\ swHandler.strategy = "staleWhileRevalidate" /\ swHandler.pc = "wait"
    /\ ~swNet
    /\ Throw
    /\ UNCHANGED <<swStatic, swDynamic, swNet, swVersion, swBackground, swPut>>
    /\ UNCHANGED <<engineVars, mergeVars, altVars, langVars, extVars>>

\* the sequence without its i-th element
Without(seq, i) == SubSeq(seq, 1, i - 1) \o SubSeq(seq, i + 1, Len(seq))

\* a fetch nobody awaits resolves: an ok response is put into the dynamic
\* partition
BackgroundFetchOk(i, ok) ==
    /\ i \in DOMAIN swBackground
    /\ swNet
    /\ ok => swPut = NoPut
    /\ swPut' = StoreIfOk("dynamic", swBackground[i], NetResponse(swVersion, ok))
    /\ swBackground' = Without(swBackground, i)
    /\ UNCHANGED <<swStatic, swDynamic, swNet, swVersion, swHandler>>
    /\ UNCHANGED <<engineVars, mergeVars, altVars, langVars, extVars>>

\* the cache.put nobody awaits settles: the entry of the partition is replaced
PutSettled ==
    /\ swPut # NoPut
    /\ swPut' = NoPut
    /\ IF swPut.partition = "static"
       THEN /\ swStatic' = CachePut(swStatic, swPut.path, swPut.response)
            /\ UNCHANGED swDynamic
       ELSE /\ swDynamic' = CachePut(swDynamic, swPut.path, swPut.response)
            /\ UNCHANGED swStatic
    /\ UNCHANGED <<swNet, swVersion, swHandler, swBackground>>
    /\ UNCHANGED <<engineVars, mergeVars, altVars, langVars, extVars>>

\* the cache.put nobody awaits rejects: nothing is stored and nothing handles
\* the rejection
PutRejected ==
    /\ swPut # NoPut
    /\ swPut' = NoPut
    /\ UNCHANGED <<swStatic, swDynamic, swNet, swVersion, swHandler, swBackground>>
    /\ UNCHANGED <<engineVars, mergeVars, altVars, langVars, extVars>>

\* a fetch nobody awaits rejects: catch(() => null)
BackgroundFetchFail(i) ==
    /\ i \in DOMAIN swBackground
    /\ ~swNet
    /\ swBackground' = Without(swBackground, i)
    /\ UNCHANGED <<swStatic, swDynamic, swNet, swVersion, swHandler, swPut>>
    /\ UNCHANGED <<engineVars, mergeVars, altVars, langVars, extVars>>

\* the catch block of handleFetch: caches.match(request) returns
FallbackMatch ==
    /\ swHandler.pc = "fallbackMatch"
    /\ LET cachedResponse == Match(swStatic, swDynamic, swHandler.req.path)
       IN IF cachedResponse # NoResponse
          THEN Return(cachedResponse)
          ELSE IF swHandler.req.mode = "navigate"
               THEN swHandler' = [swHandler EXCEPT !.pc = "fallbackShell"]
               ELSE Return(ShellOrOffline(NoResponse))
    /\ UNCHANGED <<swStatic, swDynamic, swNet, swVersion, swBackground, swPut>>
    /\ UNCHANGED <<engineVars, mergeVars, altVars, langVars, extVars>>

\* the catch block of handleFetch: caches.match('/') returns
FallbackShell ==
    /\ swHandler.pc = "fallbackShell"
    /\ Return(ShellOrOffline(Match(swStatic, swDynamic, <<"/">>)))
    /\ UNCHANGED <<swStatic, swDynamic, swNet, swVersion, swBackground, swPut>>
    /\ UNCHANGED <<engineVars, mergeVars, altVars, langVars, extVars>>

NextSW ==
    \/ Install
    \/ NetChange
    \/ ServerUpdate
    \/ \E request \in Requests : PassThrough(request)
    \/ \E request \in Requests : HandleFetch(request)
    \/ CacheFirstMatch
    \/ CacheFirstFetchOk
    \/ CacheFirstFetchFail
    \/ NetworkFirstFetchOk
    \/ NetworkFirstFetchFail
    \/ NetworkFirstCatch
    \/ StaleWhileRevalidateMatch
    \/ StaleWhileRevalidateFetchOk
    \/ StaleWhileRevalidateFetchFail
    \/ \E i \in 1..MaxBackground, ok \in BOOLEAN : BackgroundFetchOk(i, ok)
    \/ \E i \in 1..MaxBackground : BackgroundFetchFail(i)
    \/ PutSettled
    \/ PutRejected
    \/ FallbackMatch
    \/ FallbackShell

SpecSW == InitSW /\ [][NextSW]_vars

----------------------------------------------------------------------------
\* SpecLang: the name and the language of the nameEntry addName builds
\* (useIndexedDB.ts:408-419). A name is the sequence of its code points.

MaxNameLen == 3     \* code points of a name passed to addName

DevanagariFirst == 2304    \* U+0900
DevanagariLast == 2431     \* U+097F

\* the code points of the names tried: space, tab, 'a', U+08FF, U+0900,
\* U+097F, U+0980
CodePoints == {32, 9, 97, 2303, 2304, 2431, 2432}

Names == UNION {[1..n -> CodePoints] : n \in 0..MaxNameLen}

\* the white space and line terminators String.prototype.trim removes
WhiteSpace ==
    {9, 10, 11, 12, 13, 32, 160, 5760, 8232, 8233, 8239, 8287, 12288, 65279}
        \cup (8192..8202)

RECURSIVE TrimStart(_)
TrimStart(text) ==
    IF text # <<>> /\ Head(text) \in WhiteSpace THEN TrimStart(Tail(text)) ELSE text

RECURSIVE TrimEnd(_)
TrimEnd(text) ==
    IF text # <<>> /\ text[Len(text)] \in WhiteSpace
    THEN TrimEnd(SubSeq(text, 1, Len(text) - 1))
    ELSE text

\* name.trim()
Trim(text) == TrimEnd(TrimStart(text))

\* a test with the pattern anchored at the start of the text
HindiRegexTestAnchored(text) ==
    text # <<>> /\ Head(text) >= DevanagariFirst /\ Head(text) <= DevanagariLast

\* /[\u0900-\u097F]/.test(text): the text is scanned for a first match
RECURSIVE HindiRegexTest(_)
HindiRegexTest(text) ==
    IF text = <<>> THEN FALSE
    ELSE IF Head(text) >= DevanagariFirst /\ Head(text) <= DevanagariLast THEN TRUE
    ELSE HindiRegexTest(Tail(text))

detectLanguage(text) == IF HindiRegexTest(text) THEN "hi" ELSE "en"

InitLang ==
    /\ InitHook
    /\ SwRest
    /\ ExtRest
    /\ input \in Names
    /\ entry = [name |-> <<>>, language |-> "none"]

\* addName(name, location): nameEntry.name and nameEntry.language
AddNameEntry ==
    /\ entry.language = "none"
    /\ entry' = [name |-> Trim(input), language |-> detectLanguage(Trim(input))]
    /\ UNCHANGED input
    /\ UNCHANGED <<engineVars, mergeVars, altVars, swVars, extVars>>

NextLang == AddNameEntry

SpecLang == InitLang /\ [][NextLang]_vars

----------------------------------------------------------------------------
\* Properties

Range(seq) == {seq[i] : i \in DOMAIN seq}

\* the records of a store that carry the supabaseId sid
WithRemoteId(s, sid) == {k \in DOMAIN s : s[k].supabaseId = sid}

\* the record id is in the store and in the view as addName left it: not
\* synced, without supabaseId, and selected by the filter of syncPendingData
Pending(s, view, id) ==
    /\ id \in DOMAIN s
    /\ ~s[id].synced
    /\ s[id].supabaseId = 0
    /\ s[id] \in Range(view)
    /\ s[id] \in Range(Unsynced(GetAll(s)))

\* C1 (idempotent merge): after two consecutive complete pulls of the same
\* remote table, every remote record R has at most one local record with
\* supabaseId = R.id (and never more than the store held before the pulls).
C1_IdempotentMerge ==
    pulls >= 2 =>
       \A r \in remote :
          Cardinality(WithRemoteId(store, r.id))
             <= Max(1, Cardinality(WithRemoteId(store0, r.id)))

\* C1 witness: two pulls have run and a remote record that was missing
\* locally has exactly one local record
C1_Witness ==
    /\ pulls >= 2
    /\ \E r \in remote :
          /\ WithRemoteId(store0, r.id) = {}
          /\ Cardinality(WithRemoteId(store, r.id)) = 1

\* C2 (delete dominance): once deleteRecord has removed a record that had a
\* supabaseId, no pull started afterwards adds a local record with that
\* supabaseId again.
C2_DeleteDominance ==
    [][\A t \in Slots :
          PullAdd(t) =>
             \A k \in DOMAIN store' \ DOMAIN store :
                store'[k].supabaseId \notin tasks[t].deletedBefore]_vars

\* C3 (no premature purge): a record deleted by the user after it was synced
\* stays in the local store with its supabaseId; the engine never calls a
\* remote delete, so no deleteById has succeeded in any reachable state.
C3_NoPrematurePurge ==
    \A d \in DeletedSynced :
       d.id \in DOMAIN store /\ store[d.id].supabaseId = d.supabaseId

\* C4 (offline-then-online convergence): when a cycle started by the online
\* event has finished with the device online throughout and every remote
\* call successful, every record that was created offline and was unsynced at
\* the event (and that the user has not deleted) is synced and has a supabaseId.
C4_Convergence ==
    lastCycle.ok =>
       \A id \in lastCycle.pre \ {d.id : d \in userDeleted} :
          /\ id \in DOMAIN store
          /\ store[id].synced
          /\ store[id].supabaseId # 0

\* C4 witness: such a cycle has finished for at least one offline record
C4_Witness ==
    /\ lastCycle.ok
    /\ lastCycle.pre # {}
    /\ \A id \in lastCycle.pre : id \in DOMAIN store /\ store[id].synced

\* C5 (no duplication at the remote store): every local record causes at most
\* one successful remote insert.
C5_AtMostOneInsert == \A id \in DOMAIN inserts : inserts[id] <= 1

\* C6 (remoteId uniqueness): no two local records carry the same supabaseId.
C6_RemoteIdUnique ==
    \A i, j \in DOMAIN store :
       (i # j /\ store[i].supabaseId # 0) => store[i].supabaseId # store[j].supabaseId

\* C7 (local-first submission): addName stores and shows the entry as pending
\* without touching the remote table, the insert is issued only for an entry
\* that is already stored, and a failed insert of addName changes neither the
\* store nor the view: the entry stays pending unless another push wrote it
\* or the user deleted it meanwhile.
C7_LocalFirst ==
    [][/\ (AddNameOffline \/ \E t \in Slots : AddNameOnline(t)) =>
             /\ Pending(store', names', nextId)
             /\ remote' = remote
       /\ \A t \in Slots :
             (InsertOk(t) /\ tasks[t].kind = "add") =>
                tasks[t].rec.id \in 1..(nextId - 1)
       /\ \A t \in Slots :
             (InsertFail(t) /\ tasks[t].kind = "add") =>
                /\ store' = store /\ names' = names
                /\ (inserts[tasks[t].rec.id] = 0
                      /\ tasks[t].rec.id \notin {d.id : d \in userDeleted})
                   => Pending(store', names', tasks[t].rec.id)]_vars

\* C7 witness: an entry added online whose insert failed is pending, and so is
\* an entry added offline
C7_Witness ==
    /\ \E id \in DOMAIN store :
          /\ id \notin offlineIds
          /\ inserts[id] = 0
          /\ \A t \in Slots : tasks[t].rec.id # id
          /\ Pending(store, names, id)
    /\ \E id \in DOMAIN store : id \in offlineIds /\ Pending(store, names, id)

\* C8 (no local loss): every step other than a deleteRecord of the user keeps
\* each record of the local store under its key with its content, and changes
\* a record with synced = false at most by marking it synced; initialisation,
\* a pull and a sync cycle therefore neither remove nor replace it.
C8_NoLocalLoss ==
    [][\/ \E id \in 1..MaxId : DeleteRecord(id)
       \/ \A k \in DOMAIN store :
             /\ k \in DOMAIN store'
             /\ store'[k].id = store[k].id
             /\ store'[k].timestamp = store[k].timestamp
             /\ (~store[k].synced /\ store'[k] # store[k]) =>
                   store'[k] = [store[k] EXCEPT !.synced = TRUE,
                                                !.supabaseId = store'[k].supabaseId]]_vars

\* C9 (deleting a never-synced record): after deleteRecord of a record
\* without supabaseId, the record is in neither the view nor the store.
C9_DeleteUnsynced ==
    [][\A id \in 1..MaxId :
          (DeleteRecord(id) /\ id \in DOMAIN store /\ store[id].supabaseId = 0) =>
             /\ id \notin DOMAIN store'
             /\ id \notin ViewIds(names')]_vars

\* C9 witness: a record without supabaseId has been deleted and is gone
C9_Witness ==
    \E d \in userDeleted :
       /\ d.supabaseId = 0
       /\ d.id \notin DOMAIN store
       /\ d.id \notin ViewIds(names)

\* C10 (deleting a synced record): deleteRecord of a record with a supabaseId
\* and synced = true keeps it in the store with its supabaseId (a tombstone)
\* and removes it from the view.
C10_DeleteSyncedKeepsTombstone ==
    [][\A id \in 1..MaxId :
          (DeleteRecord(id) /\ id \in DOMAIN store
              /\ store[id].supabaseId # 0 /\ store[id].synced) =>
             /\ id \in DOMAIN store'
             /\ store'[id].supabaseId = store[id].supabaseId
             /\ id \notin ViewIds(names')]_vars

\* the reconciliation operations in flight: calls of fetchAndMergeRemoteRecords
\* and of syncPendingData that have passed their guard and not yet returned
Reconciling == {t \in Slots : tasks[t].kind \in {"pull", "sync"}}

\* C11 (single in-flight cycle): at no point are two reconciliation operations
\* running at the same time.
C11_SingleInFlight == Cardinality(Reconciling) <= 1

\* C12 (phase order): within one cycle every remote insert precedes the
\* remote select-all, so a cycle whose select has been issued (the pull of
\* handleOnline, chain) issues no insert afterwards.
C12_PhaseOrder ==
    \A t \in Slots :
       ~(tasks[t].kind = "sync" /\ tasks[t].chain /\ tasks[t].pc = "insert")

----------------------------------------------------------------------------
\* Properties of the service worker

\* the path matches a critical resource
MatchesCritical(path) ==
    \E resource \in CRITICAL_RESOURCES : path = resource \/ EndsWith(path, resource)

\* the cached copies of a path, one per partition that holds it
CachedCopies(path) ==
    {cache[path] : cache \in {c \in {swStatic, swDynamic} : path \in DOMAIN c}}

\* the step in which a pending cache.put resolves makes its response the
\* entry of its partition
PutReplacesEntry ==
    PutSettled
       => LET cache == IF swPut.partition = "static" THEN swStatic' ELSE swDynamic'
          IN swPut.path \in DOMAIN cache /\ cache[swPut.path] = swPut.response

\* C13 (cache-first correctness): when the first await of handleFetch returns
\* for a request whose path matches a critical resource and a partition holds
\* an entry for it, handleFetch returns a cached copy, has issued no fetch,
\* and leaves the caches as they are.
C13_CacheFirst ==
    [][(/\ swHandler.pc = "match"
        /\ MatchesCritical(swHandler.req.path)
        /\ CachedCopies(swHandler.req.path) # {}
        /\ swHandler' # swHandler)
       => /\ swHandler'.pc = "done"
          /\ swHandler'.result \in CachedCopies(swHandler.req.path)
          /\ swHandler'.fetches = 0
          /\ swBackground' = swBackground
          /\ swPut' = swPut
          /\ swStatic' = swStatic /\ swDynamic' = swDynamic]_vars

\* C13 witness: a critical request was answered from the cache, without a
\* fetch, while the server already serves newer content
C13_Witness ==
    /\ swHandler.pc = "done"
    /\ swHandler.strategy = "cacheFirst"
    /\ swHandler.fetches = 0
    /\ swHandler.result.kind = "net"
    /\ swHandler.result.body < swVersion

\* C14 (stale-while-revalidate): for a request of that strategy with a cached
\* copy, handleFetch returns the copy in the step that starts the fetch, the
\* network reachable or not, and the fetch goes on unawaited; when that fetch
\* resolves with an ok response, the response is put into the dynamic
\* partition, and once the put has resolved it is the entry of the partition
\* and what the next caches.match of the path returns.
C14_StaleWhileRevalidate ==
    [][/\ (/\ swHandler.strategy = "staleWhileRevalidate"
           /\ swHandler.pc = "match"
           /\ CachedCopies(swHandler.req.path) # {}
           /\ swHandler' # swHandler)
          => /\ swHandler'.pc = "done"
             /\ swHandler'.result \in CachedCopies(swHandler.req.path)
             /\ swHandler'.fetches = 1
             /\ swBackground' = Append(swBackground, swHandler.req.path)
       /\ \A i \in DOMAIN swBackground :
             BackgroundFetchOk(i, TRUE)
             => swPut' = [partition |-> "dynamic", path |-> swBackground[i],
                          response |-> NetResponse(swVersion, TRUE)]
       /\ PutReplacesEntry
       /\ (swPut.partition = "dynamic" /\ PutSettled)
             => Match(swStatic', swDynamic', swPut.path) = swPut.response]_vars

\* C14 witness: the network is unreachable, the stale copy has been returned
\* and the fetch is still in flight; an earlier background fetch had replaced
\* the entry by newer content
C14_Witness ==
    /\ swHandler.pc = "done"
    /\ swHandler.strategy = "staleWhileRevalidate"
    /\ ~swNet
    /\ swBackground = <<swHandler.req.path>>
    /\ swHandler.result = swDynamic[swHandler.req.path]
    /\ swHandler.result.body > 1

\* C15 (fallback totality and order): handleFetch ends with a response; after
\* a throw of the strategy the catch block returns the cached match of the
\* request if there is one, else for a navigation the cached '/', else the
\* offline page.
C15_Fallback ==
    [][/\ swHandler'.pc = "done" => swHandler'.result # NoResponse
       /\ swHandler'.pc \in {"fallbackMatch", "fallbackShell"} => swHandler'.thrown
       /\ (swHandler.pc = "fallbackMatch" /\ swHandler' # swHandler)
          => IF CachedCopies(swHandler.req.path) # {}
             THEN /\ swHandler'.pc = "done"
                  /\ swHandler'.result \in CachedCopies(swHandler.req.path)
             ELSE IF swHandler.req.mode = "navigate"
                  THEN swHandler'.pc = "fallbackShell"
                  ELSE swHandler'.pc = "done" /\ swHandler'.result = OfflinePage
       /\ (swHandler.pc = "fallbackShell" /\ swHandler' # swHandler)
          => /\ swHandler'.pc = "done"
             /\ IF CachedCopies(<<"/">>) # {}
                THEN swHandler'.result \in CachedCopies(<<"/">>)
                ELSE swHandler'.result = OfflinePage]_vars

\* C15 witness: a navigation whose strategy threw got the cached shell root
\* although its own path is not cached
C15_Witness ==
    /\ swHandler.pc = "done"
    /\ swHandler.thrown
    /\ swHandler.req.mode = "navigate"
    /\ swHandler.req.path # <<"/">>
    /\ CachedCopies(swHandler.req.path) = {}
    /\ swHandler.result \in CachedCopies(<<"/">>)

----------------------------------------------------------------------------
\* Properties of the name entry

\* C16 (language detection): the language stored is 'hi' exactly when the
\* stored name has a code point in U+0900..U+097F, else 'en', and the stored
\* name is the input without its leading and trailing white space.
C16_LanguageDetection ==
    entry.language # "none" =>
       /\ entry.language =
             IF \E i \in DOMAIN entry.name : entry.name[i] \in 2304..2431
             THEN "hi" ELSE "en"
       /\ \E i, j \in 0..Len(input) :
             /\ i + j <= Len(input)
             /\ entry.name = SubSeq(input, i + 1, Len(input) - j)
             /\ \A k \in 1..i : input[k] \in WhiteSpace
             /\ \A k \in (Len(input) - j + 1)..Len(input) : input[k] \in WhiteSpace
             /\ entry.name # <<>> =>
                   /\ entry.name[1] \notin WhiteSpace
                   /\ entry.name[Len(entry.name)] \notin WhiteSpace

\* C16 witness: a name with white space around it whose Devanagari code point
\* is not the first one of the trimmed name
C16_Witness ==
    /\ entry.language = "hi"
    /\ Len(entry.name) < Len(input)
    /\ entry.name[1] \notin 2304..2431

----------------------------------------------------------------------------
\* C17 (reconnect throttling): a cycle that handleOnline starts begins at least
\* the cooling-off window of 5 seconds after the cycle handleOnline started
\* before it.
C17_ReconnectThrottle ==
    [][(GoOnline /\ db /\ ~isSyncing /\ lastCycle.start # -1)
       => ThrottleMs * (clock' + 1) - ThrottleMs * (lastCycle.start + 1) >= ThrottleMs]_vars

----------------------------------------------------------------------------
\* Push failure isolation (syncPendingData, syncSingleRecord).

Count(seq, id) == Cardinality({i \in DOMAIN seq : seq[i] = id})

\* the remote insert of the cycle of slot t fails in this step: nothing is
\* written and the loop keeps its queue
FailureIsolated(t) ==
    (InsertFail(t) \/ InsertRespLost(t))
        => /\ store' = store
           /\ names' = names
           /\ tasks'[t].kind = "sync"
           /\ tasks'[t].pc = "delay"
           /\ tasks'[t].queue = tasks[t].queue

----------------------------------------------------------------------------
\* Pull only adds (fetchAndMergeRemoteRecords).

\* the supabaseIds of the records of a store
RemoteIdsOf(s) == {s[k].supabaseId : k \in DOMAIN s} \ {0}

\* C20: no step of fetchAndMergeRemoteRecords modifies or removes a record of
\* the local store; the records it decides to add are one for each fetched
\* remote record whose id is not the remoteId of a local record it read, and
\* its add step adds exactly these, each as a new record with synced = true
\* and that remoteId; its other steps leave the store as it is.
C20_PullOnlyAdds ==
    [][\A t \in Slots :
          (tasks[t].kind = "pull" /\ tasks'[t] # tasks[t])
              => LET toAdd == tasks'[t].recordsToAdd
                     added == tasks[t].recordsToAdd
                     new == DOMAIN store' \ DOMAIN store
                 IN /\ \A k \in DOMAIN store : k \in DOMAIN store' /\ store'[k] = store[k]
                    /\ tasks[t].pc = "getAll"
                           => /\ {toAdd[i].supabaseId : i \in DOMAIN toAdd}
                                    = {r.id : r \in Range(tasks[t].remoteRecords)}
                                          \ RemoteIdsOf(store)
                              /\ \A i, j \in DOMAIN toAdd :
                                    toAdd[i].supabaseId = toAdd[j].supabaseId => i = j
                    /\ tasks[t].pc = "add"
                           => /\ Cardinality(new) = Len(added)
                              /\ \A i \in DOMAIN added :
                                    \E k \in new : /\ store'[k].synced
                                                  /\ store'[k].supabaseId = added[i].supabaseId
                                                  /\ store'[k].supabaseId # 0
                    /\ tasks[t].pc # "add" => store' = store]_vars

\* a pull has added a remote record next to an older local record that is
\* still unsynced and without supabaseId
C20_Witness ==
    \E t \in Slots :
        /\ tasks[t].kind = "pull"
        /\ tasks[t].pc = "load"
        /\ \E k, j \in DOMAIN store :
              /\ k < j
              /\ ~store[k].synced
              /\ store[k].supabaseId = 0
              /\ store[j].synced
              /\ store[j].supabaseId # 0
              /\ inserts[j] = 0
              /\ \A u \in Slots : tasks[u].rec.id # j

----------------------------------------------------------------------------
\* Deletion propagation (deleteRecord, syncPendingData).

\* the ids of the rows of the remote table
RemoteRowIds == {r.id : r \in remote}

\* C21 (deletion propagation): a record deleted by the user after it was
\* synced is deleted at the remote service by the reconciliation cycles that
\* follow: when a cycle of syncPendingData that started after the deletion
\* ends with the device online and every remote call of it accepted, the
\* remote table no longer holds the row of that record.
C21_DeletionPropagation ==
    [][\A t \in Slots :
          (tasks[t].kind = "sync" /\ tasks'[t].kind = "idle" /\ tasks[t].ok /\ online)
              => \A sid \in tasks[t].deletedBefore : sid \notin RemoteRowIds']_vars

----------------------------------------------------------------------------
\* SpecSupa: the hook useSupabaseSync (src/src/hooks/useSupabaseSync.ts).
\* A record is its position in the list that is passed in. The remote insert
\* of the client library settles with a result { error }; each call that is
\* awaited is issued in one step and settles in another.

\* const batchSize = 50
batchSize == 50

\* the state of the other parts while the hook of useSupabaseSync runs
notSupaVars ==
    <<engineVars, mergeVars, altVars, swVars, langVars, formVars, lifeVars, retryVars, dataVars>>

Min(a, b) == IF a <= b THEN a ELSE b

\* the records of a call: NameEntry[] of length n
LocalRecords(n) == [k \in 1..n |-> k]

\* a slice that takes the element at the end index as well
SliceInclusive(array, start, end) ==
    SubSeq(array, start + 1, Min(end + 1, Len(array)))

\* Array.prototype.slice(start, end) for 0 <= start <= end
Slice(array, start, end) ==
    SubSeq(array, start + 1, Min(end, Len(array)))

InitSupa ==
    /\ InitHook
    /\ SwRest
    /\ LangRest
    /\ FormRest
    /\ LifeRest
    /\ RetryRest
    /\ DataRest
    /\ supaOnline \in BOOLEAN
    /\ supaSyncing = FALSE
    /\ syncError = NoSyncError
    /\ supaCall = [op |-> "idle"]
    /\ supaLog = <<>>

\* handleOnline: setIsOnline(true)
SupaHandleOnline ==
    /\ ~supaOnline
    /\ supaOnline' = TRUE
    /\ UNCHANGED <<supaSyncing, syncError, supaCall, supaLog, notSupaVars>>

\* handleOffline: setIsOnline(false)
SupaHandleOffline ==
    /\ supaOnline
    /\ supaOnline' = FALSE
    /\ UNCHANGED <<supaSyncing, syncError, supaCall, supaLog, notSupaVars>>

\* syncAllRecords(unsyncedRecords): after the guard, map starts
\* syncRecordToSupabase for every record, each of which runs to its await of
\* the insert, and Promise.allSettled is awaited
SyncAllRecords(n) ==
    /\ supaCall.op = "idle"
    /\ supaLog' = <<>>
    /\ IF ~supaOnline \/ n = 0
       THEN /\ supaCall' = [op |-> "syncAll", pc |-> "done", records |-> LocalRecords(n),
                            pending |-> {}, results |-> <<>>]
            /\ UNCHANGED <<supaSyncing, syncError>>
       ELSE /\ supaSyncing' = TRUE
            /\ syncError' = NoSyncError
            /\ supaCall' = [op |-> "syncAll", pc |-> "await", records |-> LocalRecords(n),
                            pending |-> 1..n, results |-> <<>>]
    /\ UNCHANGED <<supaOnline, notSupaVars>>

\* the insert of syncRecordToSupabase(record k) settles: true without error,
\* false with an error or an exception
SyncRecordSettled(k, ok) ==
    /\ supaCall.op = "syncAll" /\ supaCall.pc = "await"
    /\ k \in supaCall.pending
    /\ supaCall' = [supaCall EXCEPT !.pending = @ \ {k},
                                    !.results = [j \in DOMAIN @ \cup {k} |->
                                                    IF j = k THEN ok ELSE @[j]]]
    /\ supaLog' = Append(supaLog, [rows |-> <<supaCall.records[k]>>, ok |-> ok])
    /\ UNCHANGED <<supaOnline, supaSyncing, syncError, notSupaVars>>

\* Promise.allSettled resolves: failedCount, setSyncError, finally
SyncAllSettled ==
    /\ supaCall.op = "syncAll" /\ supaCall.pc = "await"
    /\ supaCall.pending = {}
    /\ LET failedCount == Cardinality({k \in DOMAIN supaCall.results : ~supaCall.results[k]})
       IN syncError' = IF failedCount > 0
                       THEN [kind |-> "Failed to sync", count |-> failedCount,
                             of |-> Len(supaCall.records)]
                       ELSE syncError
    /\ supaSyncing' = FALSE
    /\ supaCall' = [supaCall EXCEPT !.pc = "done"]
    /\ UNCHANGED <<supaOnline, supaLog, notSupaVars>>

\* the end of migrateLocalRecords: setSyncError when successCount is short,
\* then finally
MigrateEnd(call) ==
    /\ syncError' = IF call.successCount < Len(call.records)
                     THEN [kind |-> "Migrated", count |-> call.successCount,
                           of |-> Len(call.records)]
                     ELSE syncError
    /\ supaSyncing' = FALSE
    /\ supaCall' = [call EXCEPT !.pc = "done"]

\* migrateLocalRecords(localRecords): after the guard, the first batch is
\* sliced and its insert issued
MigrateLocalRecords(n) ==
    /\ supaCall.op = "idle"
    /\ supaLog' = <<>>
    /\ IF ~supaOnline \/ n = 0
       THEN /\ supaCall' = [op |-> "migrate", pc |-> "done", records |-> LocalRecords(n),
                            i |-> 0, successCount |-> 0, pending |-> {}]
            /\ UNCHANGED <<supaSyncing, syncError>>
       ELSE /\ supaSyncing' = TRUE
            /\ syncError' = NoSyncError
            /\ supaCall' = [op |-> "migrate", pc |-> "await", records |-> LocalRecords(n),
                            i |-> 0, successCount |-> 0, pending |-> {0}]
    /\ UNCHANGED <<supaOnline, notSupaVars>>

\* the insert of the batch settles; successCount += batch.length without
\* error; i += batchSize and either the next batch is sliced and its insert
\* issued or the loop ends
MigrateBatchSettled(ok) ==
    /\ supaCall.op = "migrate" /\ supaCall.pc = "await"
    /\ LET batch == Slice(supaCall.records, supaCall.i, supaCall.i + batchSize)
           next == [supaCall EXCEPT !.i = @ + batchSize,
                                    !.successCount = IF ok THEN @ + Len(batch) ELSE @]
       IN /\ supaLog' = Append(supaLog, [rows |-> batch, ok |-> ok])
          /\ IF next.i < Len(next.records)
             THEN /\ supaCall' = [next EXCEPT !.pending = {next.i}]
                  /\ UNCHANGED <<supaSyncing, syncError>>
             ELSE MigrateEnd([next EXCEPT !.pending = {}])
    /\ UNCHANGED <<supaOnline, notSupaVars>>

\* the call has returned to its caller
SupaReturn ==
    /\ supaCall.op # "idle" /\ supaCall.pc = "done"
    /\ supaCall' = [op |-> "idle"]
    /\ UNCHANGED <<supaOnline, supaSyncing, syncError, supaLog, notSupaVars>>

NextSupa ==
    \/ SupaHandleOnline
    \/ SupaHandleOffline
    \/ \E n \in 0..MaxUnsynced : SyncAllRecords(n)
    \/ \E k \in 1..MaxUnsynced, ok \in BOOLEAN : SyncRecordSettled(k, ok)
    \/ SyncAllSettled
    \/ \E n \in 0..MaxLocalRecords : MigrateLocalRecords(n)
    \/ \E ok \in BOOLEAN : MigrateBatchSettled(ok)
    \/ SupaReturn

SpecSupa == InitSupa /\ [][NextSupa]_vars

----------------------------------------------------------------------------
\* Properties of useSupabaseSync

\* C22 (sequential push): at most one remote insert of a call of
\* syncAllRecords or of the batch loop is in flight at any time.
C22_SequentialPush ==
    supaCall.op # "idle" => Cardinality(supaCall.pending) <= 1

\* the number of rows of the inserts of a log that succeeded
RECURSIVE SumLen(_)
SumLen(log) ==
    IF log = <<>> THEN 0
    ELSE (IF Head(log).ok THEN Len(Head(log).rows) ELSE 0) + SumLen(Tail(log))

\* the rows of the inserts of a log, in the order of the inserts
RECURSIVE Rows(_)
Rows(log) == IF log = <<>> THEN <<>> ELSE Head(log).rows \o Rows(Tail(log))

\* C29 (chunked bulk insert): a call of migrateLocalRecords that passes its
\* guard inserts consecutive chunks of 1 to 50 records, one insert per chunk,
\* whatever the result of the chunks before; the chunks inserted so far are
\* the first i records, each once, and all records when the call ends;
\* successCount, and the count of the message set when it is short, is the
\* number of records of the chunks that succeeded.
C29_ChunkedInsert ==
    (supaCall.op = "migrate" /\ (supaCall.pc = "await" \/ supaCall.i > 0))
        => /\ Rows(supaLog)
                 = SubSeq(supaCall.records, 1, Min(supaCall.i, Len(supaCall.records)))
           /\ \A j \in DOMAIN supaLog :
                 Len(supaLog[j].rows) >= 1 /\ Len(supaLog[j].rows) <= batchSize
           /\ Len(supaLog) * batchSize = supaCall.i
           /\ supaCall.successCount = SumLen(supaLog)
           /\ supaCall.pc = "done"
                 => /\ supaCall.i >= Len(supaCall.records)
                    /\ supaCall.successCount < Len(supaCall.records)
                          => syncError = [kind |-> "Migrated", count |-> SumLen(supaLog),
                                          of |-> Len(supaCall.records)]

\* C29 witness: three chunks, the last one short; the first failed and the
\* later ones were inserted all the same
C29_Witness ==
    /\ supaCall.op = "migrate" /\ supaCall.pc = "done"
    /\ Len(supaLog) = 3
    /\ ~supaLog[1].ok /\ supaLog[2].ok /\ supaLog[3].ok
    /\ Len(supaLog[3].rows) < batchSize
    /\ supaCall.successCount = Len(supaCall.records) - batchSize

----------------------------------------------------------------------------
\* C23 (remoteId immutability): no step changes the supabaseId of a record of
\* the local store that has one, neither to another value nor to none.
C23_RemoteIdImmutable ==
    [][\A id \in DOMAIN store \cap DOMAIN store' :
          store[id].supabaseId # 0 => store'[id].supabaseId = store[id].supabaseId]_vars

----------------------------------------------------------------------------
\* SpecForm: one NameForm (src/src/components/NameForm.tsx) whose onSubmit is
\* handleNameSubmit, which awaits addName of the hook; no other operation of
\* the hook runs.

\* the texts typed into the field: empty, a space, 'a', ' a'
FormNames == {<<>>, <<32>>, <<97>>, <<32, 97>>}

\* the state of the other parts while the form runs
notFormVars ==
    <<clock, isSyncing, tasks, inserts, userDeleted, offlineIds, lastCycle, events,
      mergeVars, altVars, swVars, langVars, supaVars, lifeVars, retryVars, dataVars>>

InitForm ==
    /\ InitHook
    /\ SwRest
    /\ LangRest
    /\ SupaRest
    /\ LifeRest
    /\ RetryRest
    /\ DataRest
    /\ form = IdleForm

\* initDB: setDb(database)
FormOpenDB ==
    /\ ~db
    /\ db' = TRUE
    /\ UNCHANGED <<online, store, nextId, names, remote, nextRemote, form, notFormVars>>

\* the 'online' and 'offline' events
FormNetChange ==
    /\ online' = ~online
    /\ UNCHANGED <<db, store, nextId, names, remote, nextRemote, form, notFormVars>>

\* onChange: setName(e.target.value)
FormSetName(name) ==
    /\ form.pc = "idle"
    /\ form.name # name
    /\ form' = [form EXCEPT !.name = name]
    /\ UNCHANGED <<db, online, store, nextId, names, remote, nextRemote, notFormVars>>

\* the timer of 2000 ms: setShowSuccess(false)
FormHideSuccess ==
    /\ form.showSuccess
    /\ form' = [form EXCEPT !.showSuccess = FALSE]
    /\ UNCHANGED <<db, online, store, nextId, names, remote, nextRemote, notFormVars>>

\* handleSubmit: nothing for a blank name; else setIsSubmitting(true) and
\* getCurrentLocation() is awaited
HandleSubmit ==
    /\ form.pc = "idle"
    /\ Trim(form.name) # <<>>
    /\ form' = [form EXCEPT !.isSubmitting = TRUE, !.pc = "location", !.outcome = "pending"]
    /\ UNCHANGED <<db, online, store, nextId, names, remote, nextRemote, notFormVars>>

\* addName has returned: the promise of onSubmit resolves and handleSubmit
\* goes on with setShowSuccess(true), setName(''), setIsSubmitting(false);
\* the catch of handleSubmit, which would end the submission as a failure,
\* needs a rejection, and addName has none
SubmitReturned(f) ==
    [f EXCEPT !.showSuccess = TRUE, !.name = <<>>, !.isSubmitting = FALSE,
              !.pc = "idle", !.newEntry = NoEntry, !.data = 0, !.outcome = "success"]

\* getCurrentLocation resolves or rejects, handleSubmit goes on either way and
\* calls addName, which returns at once without db and else issues store.add
FormLocationSettled ==
    /\ form.pc = "location"
    /\ form' = IF db THEN [form EXCEPT !.pc = "add"] ELSE SubmitReturned(form)
    /\ UNCHANGED <<db, online, store, nextId, names, remote, nextRemote, notFormVars>>

\* store.add succeeds: setNames([newEntry, ...prev]); syncSingleRecord is
\* awaited when navigator.onLine
FormAddOk ==
    /\ form.pc = "add"
    /\ nextId <= MaxId
    /\ LET newEntry == NewNameEntry(nextId, clock)
       IN /\ store' = AddAll(store, nextId, <<newEntry>>)
          /\ names' = <<newEntry>> \o names
          /\ form' = IF online
                     THEN [form EXCEPT !.pc = "insert", !.newEntry = newEntry]
                     ELSE SubmitReturned(form)
    /\ nextId' = nextId + 1
    /\ UNCHANGED <<db, online, remote, nextRemote, notFormVars>>

\* store.add fails: request.onerror rejects the promise and the catch of
\* addName logs the error
FormAddError ==
    /\ form.pc = "add"
    /\ form' = SubmitReturned(form)
    /\ UNCHANGED <<db, online, store, nextId, names, remote, nextRemote, notFormVars>>

\* syncSingleRecord(newEntry): the remote service accepts the insert
FormInsertOk ==
    /\ form.pc = "insert"
    /\ online
    /\ nextRemote <= MaxRemote
    /\ remote' = remote \cup {OnboardingRecord(nextRemote, form.newEntry.timestamp)}
    /\ nextRemote' = nextRemote + 1
    /\ form' = [form EXCEPT !.pc = "resp", !.data = nextRemote]
    /\ UNCHANGED <<db, online, store, nextId, names, notFormVars>>

\* the insert fails, or its response is lost
FormInsertError ==
    /\ form.pc = "insert" \/ (form.pc = "resp" /\ ~online)
    /\ form' = SubmitReturned(form)
    /\ UNCHANGED <<db, online, store, nextId, names, remote, nextRemote, notFormVars>>

\* the response arrives: store.put(updatedRecord) and the view is updated
FormInsertResp ==
    /\ form.pc = "resp"
    /\ online
    /\ LET updatedRecord == UpdatedRecord(form.newEntry, form.data)
       IN /\ store' = Put(store, updatedRecord)
          /\ names' = Replaced(names, updatedRecord)
    /\ form' = SubmitReturned(form)
    /\ UNCHANGED <<db, online, nextId, remote, nextRemote, notFormVars>>

NextForm ==
    \/ FormOpenDB
    \/ FormNetChange
    \/ \E name \in FormNames : FormSetName(name)
    \/ FormHideSuccess
    \/ HandleSubmit
    \/ FormLocationSettled
    \/ FormAddOk
    \/ FormAddError
    \/ FormInsertOk
    \/ FormInsertError
    \/ FormInsertResp

SpecForm == InitForm /\ [][NextForm]_vars

\* C30 (local-store error on submit): when store.add fails during addName,
\* the store and the view are left as they were, no remote insert is issued,
\* and the submission does not end as a success.
C30_AddErrorReported ==
    [][FormAddError
          => /\ store' = store
             /\ names' = names
             /\ remote' = remote
             /\ form'.pc \notin {"insert", "resp"}
             /\ form'.outcome # "success"]_vars

----------------------------------------------------------------------------
\* Request routing (fetch listener, handleFetch).

\* the path indicates a remote-data or sync endpoint
MatchesEndpoint(path) == StartsWith(path, <<"/", "api", "/">>) \/ IncludesSync(path)

Strategies == {"cacheFirst", "networkFirstWithTimeout", "staleWhileRevalidate"}

\* a request that is not a GET request is not intercepted, and a GET request
\* gets exactly one strategy
OneStrategy(handler) ==
    IF handler.req.method = "GET"
    THEN handler.strategy \in Strategies
    ELSE handler.strategy = "none" /\ handler.pc = "idle" /\ handler.fetches = 0

\* C24 (request routing): a GET request gets exactly one strategy: network-
\* first with timeout for every path that starts with '/api/' or contains
\* 'sync', cache-first for every path that matches a critical resource,
\* stale-while-revalidate for all others; other requests are not intercepted.
C24_RequestRouting ==
    swHandler.req # NoRequest
        => /\ OneStrategy(swHandler)
           /\ swHandler.req.method = "GET"
                 => /\ MatchesEndpoint(swHandler.req.path)
                          => swHandler.strategy = "networkFirstWithTimeout"
                    /\ MatchesCritical(swHandler.req.path)
                          => swHandler.strategy = "cacheFirst"
                    /\ (~MatchesEndpoint(swHandler.req.path)
                          /\ ~MatchesCritical(swHandler.req.path))
                          => swHandler.strategy = "staleWhileRevalidate"

\* C24 as the code has it: the critical-resource test comes first, so cache-
\* first serves every path that matches a critical resource, network-first
\* with timeout every other path that starts with '/api/' or contains 'sync',
\* and stale-while-revalidate all others; other requests are not intercepted.
C24_RequestRoutingOrdered ==
    swHandler.req # NoRequest
        => /\ OneStrategy(swHandler)
           /\ swHandler.req.method = "GET"
                 => /\ MatchesCritical(swHandler.req.path)
                          => swHandler.strategy = "cacheFirst"
                    /\ (~MatchesCritical(swHandler.req.path)
                          /\ MatchesEndpoint(swHandler.req.path))
                          => swHandler.strategy = "networkFirstWithTimeout"
                    /\ (~MatchesEndpoint(swHandler.req.path)
                          /\ ~MatchesCritical(swHandler.req.path))
                          => swHandler.strategy = "staleWhileRevalidate"

\* C24 witness: the GET request of '/sync/index.html', which is an endpoint
\* path and ends with a critical resource, is being served by cache-first
C24_Witness ==
    /\ swHandler.req.method = "GET"
    /\ swHandler.req.path = <<"/", "sync", "/", "index.html">>
    /\ MatchesEndpoint(swHandler.req.path)
    /\ MatchesCritical(swHandler.req.path)
    /\ swHandler.strategy = "cacheFirst"
    /\ swHandler.pc = "match"


\* C25 (cache-first miss): a request of cacheFirst without a cached entry
\* issues one fetch; when the fetch resolves, its response is what cacheFirst
\* returns, and an ok response is by then the entry of the static partition,
\* so that the next caches.match of the path finds it; when the fetch rejects,
\* cacheFirst throws.
C25_CacheFirstMiss ==
    [][/\ (/\ swHandler.strategy = "cacheFirst"
           /\ swHandler.pc = "match"
           /\ CachedCopies(swHandler.req.path) = {}
           /\ swHandler' # swHandler)
          => swHandler'.pc = "fetch" /\ swHandler'.fetches = 1
       /\ (/\ swHandler.strategy = "cacheFirst"
           /\ swHandler.pc = "fetch"
           /\ swHandler'.pc = "done")
          => /\ swHandler'.result = NetResponse(swVersion, swHandler'.result.ok)
             /\ swHandler'.result.ok
                => /\ swHandler.req.path \in DOMAIN swStatic'
                   /\ Match(swStatic', swDynamic', swHandler.req.path) = swHandler'.result
       /\ (/\ swHandler.strategy = "cacheFirst"
           /\ swHandler.pc = "fetch"
           /\ swHandler' # swHandler
           /\ swHandler'.pc # "done")
          => swHandler'.thrown /\ swHandler'.pc = "fallbackMatch"]_vars

----------------------------------------------------------------------------
\* SpecLife: the install and the activate handler of the service worker
\* (src/dist/sw.js:27-79). A cache of CacheStorage is the set of the paths it
\* holds. Every promise the handlers create settles in a step of its own: the
\* cache.addAll of the critical resources, the cache.add of every optional
\* resource, caches.keys, every caches.delete and clients.claim.

STATIC_CACHE == "static-v2"

DYNAMIC_CACHE == "dynamic-v2"

\* the caches an earlier version of the worker may have left behind
OldCacheNames == {"static-v1", "dynamic-v1"}

notLifeVars ==
    <<engineVars, mergeVars, altVars, swVars, langVars, supaVars, formVars, retryVars,
      dataVars>>

\* caches.open(name): the cache is created when CacheStorage does not have it
Open(caches, name) ==
    [n \in DOMAIN caches \cup {name} |-> IF n \in DOMAIN caches THEN caches[n] ELSE {}]

\* what a cache holds; nothing when CacheStorage does not have it
Held(caches, name) == IF name \in DOMAIN caches THEN caches[name] ELSE {}

\* an install handler without the catch: the rejection reaches waitUntil and
\* the installation fails
InstallRejected(worker) == [worker EXCEPT !.state = "redundant"]

\* .catch((error) => { return self.skipWaiting(); }): the promise passed to
\* waitUntil resolves
InstallCatch(worker) == [worker EXCEPT !.state = "installed", !.skipWaiting = TRUE]

InitLife ==
    /\ InitHook
    /\ SwRest
    /\ LangRest
    /\ SupaRest
    /\ FormRest
    /\ RetryRest
    /\ DataRest
    /\ \E old \in SUBSET OldCacheNames : lifeCaches = [n \in old |-> CRITICAL_RESOURCES]
    /\ lifeWorker = ParsedWorker

\* the install event: both caches are opened, cache.addAll and one cache.add
\* per optional resource are called
InstallEvent ==
    /\ lifeWorker.state = "parsed"
    /\ lifeCaches' = Open(Open(lifeCaches, STATIC_CACHE), DYNAMIC_CACHE)
    /\ lifeWorker' = [lifeWorker EXCEPT !.state = "installing", !.critical = "pending",
                                        !.optional = OPTIONAL_RESOURCES]
    /\ UNCHANGED notLifeVars

\* cache.addAll(CRITICAL_RESOURCES) resolves: every resource was fetched with
\* an ok response and all of them are stored
InstallAddAllOk ==
    /\ lifeWorker.critical = "pending"
    /\ lifeCaches' = [lifeCaches EXCEPT ![STATIC_CACHE] = @ \cup CRITICAL_RESOURCES]
    /\ lifeWorker' = [lifeWorker EXCEPT !.critical = "ok"]
    /\ UNCHANGED notLifeVars

\* cache.addAll rejects: a resource could not be fetched and none is stored;
\* Promise.all rejects and the catch callback runs
InstallAddAllFail ==
    /\ lifeWorker.critical = "pending"
    /\ lifeWorker' = InstallCatch([lifeWorker EXCEPT !.critical = "failed"])
    /\ UNCHANGED lifeCaches
    /\ UNCHANGED notLifeVars

\* cache.add(url) of an optional resource resolves
InstallAddOk(url) ==
    /\ url \in lifeWorker.optional
    /\ DYNAMIC_CACHE \in DOMAIN lifeCaches
    /\ lifeCaches' = [lifeCaches EXCEPT ![DYNAMIC_CACHE] = @ \cup {url}]
    /\ lifeWorker' = [lifeWorker EXCEPT !.optional = @ \ {url}]
    /\ UNCHANGED notLifeVars

\* cache.add(url) of an optional resource rejects: Promise.allSettled records
\* the rejection
InstallAddFail(url) ==
    /\ url \in lifeWorker.optional
    /\ lifeWorker' = [lifeWorker EXCEPT !.optional = @ \ {url},
                                        !.optFailed = @ \cup {url}]
    /\ UNCHANGED lifeCaches
    /\ UNCHANGED notLifeVars

\* Promise.all resolves: .then(() => self.skipWaiting())
InstallThen ==
    /\ lifeWorker.state = "installing"
    /\ lifeWorker.critical = "ok"
    /\ lifeWorker.optional = {}
    /\ lifeWorker' = [lifeWorker EXCEPT !.state = "installed", !.skipWaiting = TRUE]
    /\ UNCHANGED lifeCaches
    /\ UNCHANGED notLifeVars

\* the activate event: caches.keys() and self.clients.claim() are called, one
\* after the other, when the array passed to Promise.all is built
ActivateEvent ==
    /\ lifeWorker.state = "installed"
    /\ lifeWorker.skipWaiting
    /\ lifeWorker' = [lifeWorker EXCEPT !.state = "activating", !.keys = "pending",
                                        !.claim = "pending"]
    /\ UNCHANGED lifeCaches
    /\ UNCHANGED notLifeVars

\* caches.keys() resolves: caches.delete is called for every name that is
\* neither STATIC_CACHE nor DYNAMIC_CACHE
ActivateKeys ==
    /\ lifeWorker.keys = "pending"
    /\ lifeWorker' = [lifeWorker EXCEPT
                         !.keys = "done",
                         !.deleting = DOMAIN lifeCaches \ {STATIC_CACHE, DYNAMIC_CACHE}]
    /\ UNCHANGED lifeCaches
    /\ UNCHANGED notLifeVars

\* caches.delete(cacheName) resolves
ActivateDeleteSettled(cacheName) ==
    /\ cacheName \in lifeWorker.deleting
    /\ lifeCaches' = [n \in DOMAIN lifeCaches \ {cacheName} |-> lifeCaches[n]]
    /\ lifeWorker' = [lifeWorker EXCEPT !.deleting = @ \ {cacheName}]
    /\ UNCHANGED notLifeVars

\* self.clients.claim() resolves: the worker controls the open pages
ActivateClaimSettled ==
    /\ lifeWorker.claim = "pending"
    /\ lifeWorker' = [lifeWorker EXCEPT !.claim = "done"]
    /\ UNCHANGED lifeCaches
    /\ UNCHANGED notLifeVars

\* Promise.all of the activate handler resolves
ActivateThen ==
    /\ lifeWorker.state = "activating"
    /\ lifeWorker.keys = "done"
    /\ lifeWorker.deleting = {}
    /\ lifeWorker.claim = "done"
    /\ lifeWorker' = [lifeWorker EXCEPT !.state = "activated"]
    /\ UNCHANGED lifeCaches
    /\ UNCHANGED notLifeVars

NextLife ==
    \/ InstallEvent
    \/ InstallAddAllOk
    \/ InstallAddAllFail
    \/ \E url \in OPTIONAL_RESOURCES : InstallAddOk(url)
    \/ \E url \in OPTIONAL_RESOURCES : InstallAddFail(url)
    \/ InstallThen
    \/ ActivateEvent
    \/ ActivateKeys
    \/ \E cacheName \in OldCacheNames : ActivateDeleteSettled(cacheName)
    \/ ActivateClaimSettled
    \/ ActivateThen

SpecLife == InitLife /\ [][NextLife]_vars

\* C26 (installation): the installation never fails: a worker past its install
\* handler is installed and has called skipWaiting, after a rejected
\* cache.addAll as well as after a resolved one, and a handler with nothing
\* left in flight can finish; the static partition holds all critical
\* resources or none, all exactly when cache.addAll resolved; an optional
\* resource whose cache.add rejected leaves the worker installable, and every
\* optional resource that neither failed nor is in flight is in the dynamic
\* partition.
C26_Installation ==
    /\ lifeWorker.state \in {"parsed", "installing", "installed", "activating", "activated"}
    /\ lifeWorker.state \notin {"parsed", "installing"} => lifeWorker.skipWaiting
    /\ lifeWorker.critical = "failed" => lifeWorker.state # "installing"
    /\ (lifeWorker.state = "installing" /\ lifeWorker.critical = "ok"
                                        /\ lifeWorker.optional = {})
          => ENABLED InstallThen
    /\ Held(lifeCaches, STATIC_CACHE) \cap CRITICAL_RESOURCES \in {{}, CRITICAL_RESOURCES}
    /\ CRITICAL_RESOURCES \subseteq Held(lifeCaches, STATIC_CACHE)
          <=> lifeWorker.critical = "ok"
    /\ lifeWorker.state # "parsed"
          => Held(lifeCaches, DYNAMIC_CACHE)
                = OPTIONAL_RESOURCES \ (lifeWorker.optional \cup lifeWorker.optFailed)

\* C26 witness: cache.addAll was rejected and one optional resource could not
\* be fetched; the worker is installed, has called skipWaiting, holds no
\* critical resource and holds every other optional resource
C26_Witness ==
    /\ lifeWorker.state = "installed"
    /\ lifeWorker.skipWaiting
    /\ lifeWorker.critical = "failed"
    /\ Held(lifeCaches, STATIC_CACHE) = {}
    /\ Cardinality(lifeWorker.optFailed) = 1
    /\ Held(lifeCaches, DYNAMIC_CACHE) = OPTIONAL_RESOURCES \ lifeWorker.optFailed

\* C27 (activation): when the activate handler completes, CacheStorage holds
\* no cache other than STATIC_CACHE and DYNAMIC_CACHE; a caches.delete of the
\* handler leaves these two as they are; and clients.claim has not taken
\* control while a cache the handler deletes is still there.
C27_Activation ==
    [][/\ lifeWorker'.state = "activated"
          => DOMAIN lifeCaches' \subseteq {STATIC_CACHE, DYNAMIC_CACHE}
       /\ lifeWorker'.deleting # lifeWorker.deleting
          => \A n \in {STATIC_CACHE, DYNAMIC_CACHE} :
                /\ n \in DOMAIN lifeCaches <=> n \in DOMAIN lifeCaches'
                /\ Held(lifeCaches', n) = Held(lifeCaches, n)
       /\ lifeWorker'.claim = "done"
          => DOMAIN lifeCaches' \subseteq {STATIC_CACHE, DYNAMIC_CACHE}]_vars

----------------------------------------------------------------------------
\* SpecRetry: the background sync of the service worker (src/dist/sw.js:
\* 241-326): syncPendingData calls syncItemWithRetry(item.data, 3) for one
\* item of pendingData after the other; every fetch and every timer of
\* syncItemWithRetry is a step.

\* syncItemWithRetry(item.data, 3)
SyncMaxRetries == 3

SecondMs == 1000

notRetryVars ==
    <<engineVars, mergeVars, altVars, swVars, langVars, supaVars, formVars, lifeVars,
      dataVars>>

RECURSIVE Pow(_, _)
\* Math.pow(base, exponent) for a natural exponent
Pow(base, exponent) == IF exponent = 0 THEN 1 ELSE base * Pow(base, exponent - 1)

\* a loop that never takes its attempt for the last one
LastAttemptNever(attempt, maxRetries) == FALSE

\* attempt === maxRetries
LastAttempt(attempt, maxRetries) == attempt = maxRetries

InitRetry ==
    /\ InitHook
    /\ SwRest
    /\ LangRest
    /\ SupaRest
    /\ FormRest
    /\ LifeRest
    /\ DataRest
    /\ retry = IdleRetry

\* storeLocally of the page (src/unnamed/part_002:177-196): the record is
\* added to 'names' with synced: false and an item with the record as its
\* data is added to 'pendingSync'
PendingSyncAdd ==
    /\ Len(retry.names) < MaxPendingItems
    /\ retry' = [retry EXCEPT !.names = Append(@, FALSE),
                              !.sent = Append(@, 0),
                              !.pendingSync = @ \cup {Len(retry.names) + 1}]
    /\ UNCHANGED notRetryVars

\* store.delete(id) on the object store of a transaction: a transaction that
\* has finished throws TransactionInactiveError and the store stays as it is
DeleteFromStore(keys, transaction, id) ==
    IF transaction = "active" THEN keys \ {id} ELSE keys

\* item of the for loop of syncPendingData
CurrentItem(r) == r.items[Len(r.items) - r.pending + 1]

\* the sync event with the tag 'background-sync': the transaction on
\* 'pendingSync' is created and getAllFromStore returns the n items of
\* pendingSync in the order of their keys
SyncEvent(n) ==
    /\ retry.pc = "idle"
    /\ retry.syncs < MaxSyncEvents
    /\ n = Cardinality(retry.pendingSync)
    /\ retry' = [retry EXCEPT !.pc = "loop", !.pending = n, !.results = <<>>,
                              !.maxRetries = 0, !.attempt = 0, !.fetches = 0,
                              !.outcomes = <<>>, !.waits = <<>>,
                              !.items = KeysAsc(retry.pendingSync),
                              !.namesBefore = retry.names,
                              !.transaction = "active",
                              !.syncs = @ + 1]
    /\ UNCHANGED notRetryVars

\* for (const item of pendingData): syncItemWithRetry(item.data, 3) is called
\* and issues the fetch of its first attempt; syncPendingData waits for it
\* with no request pending in its transaction on 'pendingSync', so the
\* transaction commits and is finished
SyncItemWithRetry ==
    /\ retry.pc = "loop"
    /\ retry.pending > 0
    /\ retry' = [retry EXCEPT !.pc = "fetch", !.maxRetries = SyncMaxRetries,
                              !.attempt = 1, !.fetches = 1,
                              !.outcomes = <<>>, !.waits = <<>>,
                              !.transaction = "finished"]
    /\ UNCHANGED notRetryVars

\* the fetch resolves with response.ok: return true
RetryFetchOk ==
    /\ retry.pc = "fetch"
    /\ retry' = [retry EXCEPT !.pc = "returned", !.outcomes = Append(@, "ok"),
                              !.sent[CurrentItem(retry)] = @ + 1]
    /\ UNCHANGED notRetryVars

\* the fetch resolves with a response that is not ok, or it rejects: the last
\* attempt throws, out of the try block and again out of the catch block; an
\* earlier one sets the timer of Math.pow(2, attempt) * 1000 milliseconds
RetryFetchFailed(outcome) ==
    /\ retry.pc = "fetch"
    /\ IF LastAttempt(retry.attempt, retry.maxRetries)
       THEN retry' = [retry EXCEPT !.pc = "thrown", !.outcomes = Append(@, outcome)]
       ELSE retry' = [retry EXCEPT !.pc = "wait", !.outcomes = Append(@, outcome),
                                   !.waits = Append(@, Pow(2, retry.attempt) * SecondMs)]
    /\ UNCHANGED notRetryVars

\* the timer fires: attempt++, and the loop goes on with the next fetch or
\* ends with return false
RetryTimer ==
    /\ retry.pc = "wait"
    /\ IF retry.attempt + 1 <= retry.maxRetries
       THEN retry' = [retry EXCEPT !.pc = "fetch", !.attempt = @ + 1, !.fetches = @ + 1]
       ELSE retry' = [retry EXCEPT !.pc = "returnedFalse", !.attempt = @ + 1]
    /\ UNCHANGED notRetryVars

\* syncPendingData gets the result: after true the record of the item is put
\* into 'names' with synced: true in a new transaction and
\* deleteFromStore(store, item.id) is called on the object store of the
\* transaction made before the loop; false is skipped and a throw, of
\* syncItemWithRetry or of deleteFromStore, is caught and logged
SyncItemDone ==
    /\ retry.pc \in {"returned", "returnedFalse", "thrown"}
    /\ retry' = [retry EXCEPT
                    !.pc = "loop", !.pending = @ - 1,
                    !.results = Append(@, IF retry.pc = "returned"
                                          THEN "synced" ELSE "failed"),
                    !.names = IF retry.pc = "returned"
                              THEN [@ EXCEPT ![CurrentItem(retry)] = TRUE]
                              ELSE @,
                    !.pendingSync = IF retry.pc = "returned"
                                    THEN DeleteFromStore(@, retry.transaction,
                                                         CurrentItem(retry))
                                    ELSE @]
    /\ UNCHANGED notRetryVars

\* the loop is over and syncPendingData returns
SyncReturn ==
    /\ retry.pc = "loop"
    /\ retry.pending = 0
    /\ retry' = [retry EXCEPT !.pc = "idle", !.transaction = "none"]
    /\ UNCHANGED notRetryVars

NextRetry ==
    \/ PendingSyncAdd
    \/ \E n \in 1..MaxPendingItems : SyncEvent(n)
    \/ SyncItemWithRetry
    \/ RetryFetchOk
    \/ \E outcome \in {"notOk", "rejected"} : RetryFetchFailed(outcome)
    \/ RetryTimer
    \/ SyncItemDone
    \/ SyncReturn

SpecRetry == InitRetry /\ [][NextRetry]_vars

\* C28 (background-sync retry): a call syncItemWithRetry(data, 3) issues at
\* most 3 fetches, one per attempt; it returns true exactly at the first ok
\* response and issues no fetch after it; the timers it has awaited are 2000 ms
\* after the first failed attempt and 4000 ms after the second, and none after
\* the third; it throws exactly when three attempts have failed, and it never
\* returns false.
C28_RetryBackoff ==
    retry.pc \in {"fetch", "wait", "returned", "returnedFalse", "thrown"}
       => LET n == Len(retry.outcomes)
              failed == {i \in 1..n : retry.outcomes[i] # "ok"}
          IN /\ retry.maxRetries = 3
             /\ retry.fetches <= 3
             /\ retry.fetches = retry.attempt
             /\ retry.fetches = IF retry.pc = "fetch" THEN n + 1 ELSE n
             /\ \A i \in 1..n : retry.outcomes[i] = "ok" => i = n /\ retry.pc = "returned"
             /\ retry.pc = "returned" => n >= 1 /\ retry.outcomes[n] = "ok"
             /\ retry.pc = "thrown" <=> Cardinality(failed) = 3
             /\ retry.pc # "returnedFalse"
             /\ retry.waits
                   = IF Cardinality(failed) = 0 THEN <<>>
                     ELSE IF Cardinality(failed) = 1 THEN <<2000>>
                     ELSE <<2000, 4000>>

\* C28 witness: the third attempt failed after waits of 2 s and 4 s and the
\* call threw, for the second item of the sync event
C28_Witness ==
    /\ retry.pc = "thrown"
    /\ retry.fetches = 3
    /\ retry.waits = <<2000, 4000>>
    /\ retry.outcomes = <<"notOk", "rejected", "notOk">>
    /\ Len(retry.results) = 1

----------------------------------------------------------------------------
\* the view shows exactly the records of the store, each once and as the store
\* holds it, in descending order of timestamp
ViewOfStore(view, s) ==
    /\ {view[i] : i \in DOMAIN view} = {s[k] : k \in DOMAIN s}
    /\ Len(view) = Cardinality(DOMAIN s)
    /\ \A i, j \in DOMAIN view : i < j => view[i].timestamp >= view[j].timestamp

\* C31 (view after reconciliation): in the step in which a pull or a push
\* cycle returns to the event loop, the view (names) holds exactly the records
\* of the local store, with the synced flag the store has, ordered by
\* timestamp descending.
C31_ViewAfterReconciliation ==
    [][\A t \in Slots :
          (tasks[t].kind \in {"pull", "sync"} /\ tasks'[t].kind = "idle")
             => ViewOfStore(names', store')]_vars

----------------------------------------------------------------------------
\* SpecSchema: the versions of the database 'NameCollectorDB'. The earlier
\* versions of the hook open it with version 1 (src/unnamed/part_003:52-67
\* with the object store 'names' alone, src/unnamed/part_001:37-56 with
\* 'pendingSync' as well), the final hook with version 2
\* (src/src/hooks/useIndexedDB.ts:259-276). onupgradeneeded runs when the
\* version asked for is higher than the version of the database.

\* indexedDB.open('NameCollectorDB', 1)
PreviousVersion == 1

\* indexedDB.open('NameCollectorDB', 2)
CurrentVersion == 2

notSchemaVars ==
    <<engineVars, mergeVars, altVars, swVars, langVars, supaVars, formVars, lifeVars,
      retryVars, trip>>

InitSchema ==
    /\ InitHook
    /\ SwRest
    /\ LangRest
    /\ SupaRest
    /\ FormRest
    /\ LifeRest
    /\ RetryRest
    /\ idb = NoDatabase
    /\ trip = NoTrip

\* openDB of an earlier version of the hook, on a device without the database:
\* onupgradeneeded creates 'names', and 'pendingSync' in the versions that
\* have it, without an index
PreviousOpenDB(withPendingSync) ==
    /\ idb.version < PreviousVersion
    /\ idb' = [idb EXCEPT
                  !.version = PreviousVersion,
                  !.stores = IF "names" \in idb.stores THEN idb.stores
                             ELSE IF withPendingSync THEN {"names", "pendingSync"}
                             ELSE {"names"}]
    /\ UNCHANGED notSchemaVars

\* store.add(nameEntry): the key comes from the generator
SchemaAdd ==
    /\ "names" \in idb.stores
    /\ idb.nextKey <= MaxSchemaKeys
    /\ idb' = [idb EXCEPT
                  !.records = [k \in DOMAIN idb.records \cup {idb.nextKey} |->
                                  IF k = idb.nextKey THEN NewNameEntry(k, 0)
                                  ELSE idb.records[k]],
                  !.nextKey = @ + 1]
    /\ UNCHANGED notSchemaVars

\* store.delete(id)
SchemaDelete(id) ==
    /\ id \in DOMAIN idb.records
    /\ idb' = [idb EXCEPT !.records = Delete(idb.records, id)]
    /\ UNCHANGED notSchemaVars

\* openDB of the final hook on a database of a lower version, or on a device
\* without the database: onupgradeneeded creates 'names' with its two indexes
\* when the database has no object store 'names', and does nothing else
OpenDB ==
    /\ idb.version < CurrentVersion
    /\ idb' = IF "names" \notin idb.stores
              THEN [idb EXCEPT !.version = CurrentVersion,
                               !.stores = @ \cup {"names"},
                               !.indexes = {"supabaseId", "timestamp"}]
              ELSE [idb EXCEPT !.version = CurrentVersion]
    /\ UNCHANGED notSchemaVars

NextSchema ==
    \/ \E withPendingSync \in BOOLEAN : PreviousOpenDB(withPendingSync)
    \/ SchemaAdd
    \/ \E id \in 1..MaxSchemaKeys : SchemaDelete(id)
    \/ OpenDB

SpecSchema == InitSchema /\ [][NextSchema]_vars

\* C32 (schema upgrade): the step that opens a database of the previous
\* version with the current version keeps every record of 'names', and after
\* it 'names' has the index 'supabaseId'.
C32_SchemaUpgrade ==
    [][(idb.version = PreviousVersion /\ idb'.version = CurrentVersion)
          => /\ idb'.records = idb.records
             /\ "supabaseId" \in idb'.indexes]_vars

----------------------------------------------------------------------------
\* C33 (revalidation failure is absorbed): when a fetch that
\* staleWhileRevalidate left in the background rejects or resolves with a
\* response that is not ok, and when a cache.put nobody awaits rejects, both
\* cache partitions, the pending put and the call of handleFetch (its result
\* and whether it threw) stay as they are.
C33_RevalidationAbsorbed ==
    [][/\ \A i \in DOMAIN swBackground :
             (BackgroundFetchFail(i) \/ BackgroundFetchOk(i, FALSE))
                => /\ swStatic' = swStatic /\ swDynamic' = swDynamic
                   /\ swPut' = swPut
                   /\ swHandler' = swHandler
       /\ PutRejected
             => /\ swStatic' = swStatic /\ swDynamic' = swDynamic
                /\ swHandler' = swHandler]_vars

\* C33 witness: staleWhileRevalidate returned the cached copy while the
\* network was unreachable, its background fetch is over, and the entry of
\* the dynamic partition is still the copy that was returned
C33_Witness ==
    /\ swHandler.pc = "done"
    /\ swHandler.strategy = "staleWhileRevalidate"
    /\ swHandler.fetches = 1
    /\ ~swHandler.thrown
    /\ ~swNet
    /\ swBackground = <<>>
    /\ swPut = NoPut
    /\ swHandler.req.path \in DOMAIN swDynamic
    /\ swDynamic[swHandler.req.path] = swHandler.result
    /\ swHandler.result.body < swVersion

\* C38 (only successful responses are cached): every entry of a cache
\* partition and the response of a pending cache.put are ok responses, so no
\* response that is not ok creates or replaces an entry.
C38_OnlyOkCached ==
    /\ \A path \in DOMAIN swStatic : swStatic[path].ok
    /\ \A path \in DOMAIN swDynamic : swDynamic[path].ok
    /\ swPut # NoPut => swPut.response.ok

\* C38 witness: a strategy returned a response of the network that is not ok
\* for a path whose cached copy is still there, and no put is pending
C38_Witness ==
    /\ swHandler.pc = "done"
    /\ swHandler.result.kind = "net"
    /\ ~swHandler.result.ok
    /\ CachedCopies(swHandler.req.path) # {}
    /\ swPut = NoPut

----------------------------------------------------------------------------
\* C34 (sync state consistency): every record of the local store is synced
\* exactly when it has a supabaseId.
C34_SyncedIffRemoteId ==
    \A id \in DOMAIN store : store[id].synced <=> store[id].supabaseId # 0

\* C34 witness: the store holds a record a pull created, a record a push has
\* written back, or both, next to a record that is not synced
C34_Witness ==
    \E a, b \in DOMAIN store :
       /\ store[a].synced /\ store[a].supabaseId # 0
       /\ ~store[b].synced /\ store[b].supabaseId = 0

\* C35 (delete during an in-flight push): when the response of a remote
\* insert arrives for a record that deleteRecord has removed from the local
\* store in the meantime, the store holds no record with that id afterwards.
C35_DeleteDuringPush ==
    [][\A t \in Slots :
          (/\ tasks[t].pc = "resp"
           /\ tasks[t].rec.id \notin DOMAIN store
           /\ tasks'[t].pc # "resp")
             => tasks[t].rec.id \notin DOMAIN store']_vars

\* C36 (isSyncing accuracy): isSyncing is true in every state in which a pull
\* or a push cycle is in progress, and false once none is in progress any
\* more.
C36_IsSyncingAccurate ==
    isSyncing <=> (\E t \in Slots : tasks[t].kind \in {"pull", "sync"})

----------------------------------------------------------------------------
\* The two conversions of a record: syncSingleRecord builds the row it inserts
\* (src/src/hooks/useIndexedDB.ts:453-461) and fetchAndMergeRemoteRecords
\* builds the local record of a row (355-367). A value that may be undefined
\* or null is <<>> when it is, and <<v>> otherwise. The columns latitude,
\* longitude and location_accuracy are decimal and come back as numbers
\* (src/src/lib/supabase.ts:13-24).

notTripVars ==
    <<engineVars, mergeVars, altVars, swVars, langVars, supaVars, formVars, lifeVars,
      retryVars, idb>>

\* the coordinates GeolocationPosition can give
Coordinates == (0 - MaxCoordinate)..MaxCoordinate

Accuracies == 0..MaxAccuracy

\* Date.now() of addName, in milliseconds
Timestamps == {1000 * s + ms : s \in 0..MaxTripSeconds, ms \in {0, 999}}

\* the location argument of addName
Locations ==
    {<<>>} \cup {<<[latitude |-> la, longitude |-> lo, accuracy |-> ac]>> :
                    la \in Coordinates, lo \in Coordinates, ac \in Accuracies}

\* the unsynced records addName stores: detectLanguage gives 'hi' or 'en'
TripRecords ==
    {[name |-> "a", language |-> l, location |-> loc, timestamp |-> ts,
      synced |-> FALSE] : l \in {"en", "hi"}, loc \in Locations, ts \in Timestamps}

\* new Date(ms).toISOString(): the text of the instant, to the millisecond
ToISOString(ms) == [seconds |-> ms \div 1000, millis |-> ms % 1000]

\* new Date(text).getTime()
GetTime(text) == text.seconds * 1000 + text.millis

\* x is a number that is not 0 (and not null or undefined)
TruthyNumber(x) == x # <<>> /\ x[1] # 0

\* supabaseRecord of syncSingleRecord; JSON leaves out the undefined fields
\* and the columns are null then
SupabaseRecordOf(record) ==
    [name |-> record.name,
     language |-> IF record.language = "" THEN "en" ELSE record.language,
     latitude |-> IF record.location = <<>> THEN <<>>
                  ELSE <<record.location[1].latitude>>,
     longitude |-> IF record.location = <<>> THEN <<>>
                   ELSE <<record.location[1].longitude>>,
     location_accuracy |-> IF record.location = <<>> THEN <<>>
                           ELSE <<record.location[1].accuracy>>,
     timestamp |-> ToISOString(record.timestamp),
     synced |-> TRUE]

\* localRecord of fetchAndMergeRemoteRecords
LocalRecordOf(remoteRecord) ==
    [supabaseId |-> remoteRecord.id,
     name |-> remoteRecord.name,
     language |-> IF remoteRecord.language = "" THEN "en" ELSE remoteRecord.language,
     location |-> IF TruthyNumber(remoteRecord.latitude)
                     /\ TruthyNumber(remoteRecord.longitude)
                  THEN <<[latitude |-> remoteRecord.latitude[1],
                          longitude |-> remoteRecord.longitude[1],
                          accuracy |-> IF TruthyNumber(remoteRecord.location_accuracy)
                                       THEN remoteRecord.location_accuracy[1]
                                       ELSE 0]>>
                  ELSE <<>>,
     timestamp |-> GetTime(remoteRecord.timestamp),
     synced |-> TRUE]

InitTrip ==
    /\ InitHook
    /\ SwRest
    /\ LangRest
    /\ SupaRest
    /\ FormRest
    /\ LifeRest
    /\ RetryRest
    /\ idb = NoDatabase
    /\ \E record \in TripRecords :
          trip = [NoTrip EXCEPT !.pc = "local", !.record = <<record>>]

\* syncSingleRecord: the insert of supabaseRecord; the row gets its id and
\* select().single() gives it back
TripInsert ==
    /\ trip.pc = "local"
    /\ trip' = [trip EXCEPT
                   !.pc = "remote",
                   !.remoteRecord =
                       <<[id |-> 1] @@ SupabaseRecordOf(trip.record[1])>>]
    /\ UNCHANGED notTripVars

\* fetchAndMergeRemoteRecords on a device that has not got the row
TripPull ==
    /\ trip.pc = "remote"
    /\ trip' = [trip EXCEPT !.pc = "back",
                            !.localRecord = <<LocalRecordOf(trip.remoteRecord[1])>>]
    /\ UNCHANGED notTripVars

NextTrip ==
    \/ TripInsert
    \/ TripPull

SpecTrip == InitTrip /\ [][NextTrip]_vars

\* C37 (push/pull round trip): the local record made from the row that was
\* made from a local record has the name, language, timestamp and location
\* of that record.
C37_RoundTrip ==
    trip.pc = "back"
       => /\ trip.localRecord[1].name = trip.record[1].name
          /\ trip.localRecord[1].language = trip.record[1].language
          /\ trip.localRecord[1].timestamp = trip.record[1].timestamp
          /\ trip.localRecord[1].location = trip.record[1].location

----------------------------------------------------------------------------
\* C39 (background-sync queue drain): when the loop of syncPendingData is
\* over, every item whose syncItemWithRetry returned true has its record in
\* 'names' with synced = true and is no longer in 'pendingSync', and every
\* item whose sync failed is still in 'pendingSync' with its record in
\* 'names' as it was at the event; no item gets a second ok response to its
\* fetch.
C39_QueueDrain ==
    /\ (retry.pc = "loop" /\ retry.pending = 0)
          => \A i \in 1..Len(retry.items) :
                LET k == retry.items[i]
                IN IF retry.results[i] = "synced"
                   THEN retry.names[k] /\ k \notin retry.pendingSync
                   ELSE /\ k \in retry.pendingSync
                        /\ retry.names[k] = retry.namesBefore[k]
    /\ \A k \in 1..Len(retry.sent) : retry.sent[k] <= 1

============================================================================
